---- MODULE Spec2Model ----
(***************************************************************************)
(* SecretShare-CF: the worker's secret lifecycle (src/src/worker.ts), its  *)
(* anti-forgery token, and the browser client's apiCall (frontend app).    *)
(* Times are milliseconds, as returned by Date.now().                      *)
(***************************************************************************)
EXTENDS Integers, Sequences, FiniteSets, TLC

(* ------------------------------ bounds --------------------------------- *)
\* request slots of the worker that may be in flight at once
MaxProcs == 2
\* external ids that generateSecretId may hand out
MaxSecrets == 1
\* the clock runs over 0 .. MaxHalfHours * 30 minutes
MaxHalfHours == 2
\* 200 responses of retrieve counted per record; no retrieve is received
\* for a run that has reached it
MaxDelivered == 3
\* fetches of the endpoint that one apiCall invocation is followed through
MaxSends == 3
\* code units of a plaintext under trial
MaxPlainLen == 2
\* random keys under trial
MaxDraws == 2
\* tokens are tried with issue times in the first MaxIssueSeconds seconds
MaxIssueSeconds == 4
\* passwords are generated with lengths up to MaxPasswordLen
MaxPasswordLen == 2
\* byte sequences of up to MaxBufferLen bytes are encoded
MaxBufferLen == 4

(* ------------------------- program constants --------------------------- *)
\* worker.ts:314  30 * 60 * 1000
CSRF_WINDOW_MS == 30 * 60 * 1000
\* app: CSRF_TOKEN_CACHE_DURATION = 25 * 60 * 1000
CSRF_TOKEN_CACHE_DURATION == 25 * 60 * 1000
\* worker.ts:160 (hours -> seconds) and worker.ts:177 (seconds -> ms)
SECONDS_PER_HOUR == 3600
MS_PER_SECOND == 1000
MIN_VIEWS == 1
MAX_VIEWS == 100
MIN_HOURS == 1
MAX_HOURS == 8760
\* the worker's CSRF_SECRET and a secret the worker does not use
CSRF_SECRET == "server-secret"
OTHER_SECRET == "other-secret"

(* ------------------- JavaScript values and strings --------------------- *)
Digits == <<"0", "1", "2", "3", "4", "5", "6", "7", "8", "9">>

DigitValue(c) == CHOOSE d \in 0..9 : Digits[d + 1] = c

IsDigit(c) == \E d \in 0..9 : Digits[d + 1] = c

\* Number.prototype.toString for a non-negative integer: its decimal digits
RECURSIVE NumberToString(_)
NumberToString(n) == IF n < 10 THEN <<Digits[n + 1]>>
               ELSE Append(NumberToString(n \div 10), Digits[(n % 10) + 1])

\* a JavaScript number that may be NaN
Num(v) == [nan |-> FALSE, v |-> v]
NaN == [nan |-> TRUE, v |-> 0]

RECURSIVE LeadingDigits(_, _)
LeadingDigits(s, acc) ==
    IF s = <<>> \/ ~IsDigit(Head(s)) THEN acc
    ELSE LeadingDigits(Tail(s), acc * 10 + DigitValue(Head(s)))

\* parseInt(s): the number its leading decimal digits spell, NaN if none
ParseInt(s) == IF s = <<>> \/ ~IsDigit(Head(s)) THEN NaN
               ELSE Num(LeadingDigits(s, 0))

\* a - b, a > b, a < b, a >= b on numbers that may be NaN
JsSub(a, b) == IF a.nan \/ b.nan THEN NaN ELSE Num(a.v - b.v)
JsGt(a, b) == ~a.nan /\ ~b.nan /\ a.v > b.v
JsLt(a, b) == ~a.nan /\ ~b.nan /\ a.v < b.v
JsGe(a, b) == ~a.nan /\ ~b.nan /\ a.v >= b.v

\* JSON values of a numeric request field: a number, a string that is not
\* numeric (such as "many"), or the field left out
JNumber(n) == [k |-> "number", n |-> n]
JString == [k |-> "string", n |-> 0]
JUndefined == [k |-> "undefined", n |-> 0]

\* ToNumber, as the relational operators apply it
ToNumber(j) == IF j.k = "number" THEN Num(j.n) ELSE NaN

(* ----------------------- anti-forgery token ---------------------------- *)
\* HMAC-SHA256(message) under key, hex encoded: a value only the holder of
\* the key can compute, one per (key, message)
HmacHex(key, msg) == [key |-> key, msg |-> msg]
EmptyString == [key |-> "", msg |-> <<>>]
GarbageHex == [key |-> "garbage", msg |-> <<>>]

\* a token text, seen through token.split('.'): the number of parts, the
\* first part and the second part. n = 0 stands for a missing (falsy) token
Token(n, ts, sig) == [n |-> n, ts |-> ts, sig |-> sig]
NoToken == Token(0, <<>>, EmptyString)

GenerateCSRFToken(secret, nowMs) ==
    Token(2, NumberToString(nowMs), HmacHex(secret, NumberToString(nowMs)))

ValidateNoUpperEdge(token, secret, nowMs) ==
    /\ token.n = 2
    /\ token.ts # <<>> /\ token.sig # EmptyString
    /\ LET tokenAge == JsSub(Num(nowMs), ParseInt(token.ts))
       IN ~(JsLt(tokenAge, Num(0)))
    /\ HmacHex(secret, token.ts) = token.sig

ValidateCSRFToken(token, secret, nowMs) ==
    /\ token.n = 2
    /\ token.ts # <<>> /\ token.sig # EmptyString
    /\ LET tokenAge == JsSub(Num(nowMs), ParseInt(token.ts))
       IN ~(JsGt(tokenAge, Num(CSRF_WINDOW_MS)) \/ JsLt(tokenAge, Num(0)))
    /\ HmacHex(secret, token.ts) = token.sig

(* ----------------------------- identifiers ----------------------------- *)
\* A text that is base64url of 32 bytes: h counts the SHA-256 applications
\* that produced the bytes from the random bytes numbered r (r = 0: the
\* empty, falsy text). generateSecretId gives h = 0, hashSecretId adds one.
Id(h, r) == [h |-> h, r |-> r]
NoId == Id(0, 0)

GenerateSecretId(rnd) == Id(0, rnd)

HashSecretIdIdentity(secretId) == secretId

HashSecretId(secretId) == Id(secretId.h + 1, secretId.r)

ExternalIds == {GenerateSecretId(rnd) : rnd \in 1..MaxSecrets}
StoreKeys == {HashSecretId(id) : id \in ExternalIds}
\* the keys the store can be asked about: the hashes, and the external ids
\* themselves, under which the worker must never store
\* the id of a record that a create before the first state may have left
\* in the store
BystanderId == GenerateSecretId(MaxSecrets + 1)
KvKeys ==
    StoreKeys \cup ExternalIds \cup {HashSecretId(BystanderId), BystanderId}

(* ------------------------------- state --------------------------------- *)
Procs == 1..MaxProcs

VARIABLES
    now,              \* Date.now()
    kv,               \* SECRETS_KV: key -> entry
    usedRandom,       \* random draws generateSecretId has made
    pc,               \* per request slot: where its handler stands
    req,              \* per request slot: the request being handled
    loc,              \* per request slot: the handler's local variables
    resp,             \* per request slot: the response it returned
    kvOps,            \* per request slot: store operations it has performed
    delivered,        \* per random draw: 200 responses of retrieve so far
    born,             \* per random draw: the create that stored it
    cachedCSRFToken,  \* client: cached token (NoToken = null)
    csrfTokenExpiry,  \* client: cache expiry (0 = null)
    call,             \* client: the apiCall invocation under way
    trial,            \* one token issued and validated on its own
    cipher,           \* one secret encrypted and decrypted on its own
    currentSecretData \* window.currentSecretData of the retrieve page

vars == <<now, kv, usedRandom, pc, req, loc, resp, kvOps, delivered,
          born, cachedCSRFToken, csrfTokenExpiry, call, trial, cipher,
          currentSecretData>>

clientVars == <<cachedCSRFToken, csrfTokenExpiry, call>>

\* interface SecretData
SecretData(encryptedData, maxViews, viewCount, createdAt) ==
    [encryptedData |-> encryptedData, maxViews |-> maxViews,
     viewCount |-> viewCount, createdAt |-> createdAt]
NoData == SecretData("", JUndefined, 0, 0)

\* a store entry: the value and the absolute expiration the store keeps for
\* the key (NoExpiration: the key never expires)
NoExpiration == 0 - 1
Entry(present, value, expiration) ==
    [present |-> present, value |-> value, expiration |-> expiration]
Absent == Entry(FALSE, NoData, NoExpiration)

\* KV.get: null for a key that is absent or past its expiration
KvLiveAfterExpiry(store, key, t) == key \in DOMAIN store /\ store[key].present

KvLive(store, key, t) ==
    /\ key \in DOMAIN store
    /\ store[key].present
    /\ (store[key].expiration = NoExpiration \/ t < store[key].expiration)

\* KV.put(key, value, {expirationTtl}) and KV.put(key, value)
KvPutTtl(store, key, value, ttlSeconds, t) ==
    [store EXCEPT ![key] = Entry(TRUE, value, t + ttlSeconds * MS_PER_SECOND)]
KvPut(store, key, value) ==
    [store EXCEPT ![key] = Entry(TRUE, value, NoExpiration)]
KvDeleteAll(store, key) == [k \in DOMAIN store |-> Absent]

KvDelete(store, key) ==
    IF key \in DOMAIN store THEN [store EXCEPT ![key] = Absent] ELSE store

\* Origin header values: none, the origin the deployment lists in
\* ALLOWED_ORIGINS, and one it does not list
NoOrigin == ""
APP_ORIGIN == "https://app.example"
FOREIGN_ORIGIN == "https://other.example"

\* a request: the route, who built it, the shape of its body, the body's
\* fields, the X-CSRF-Token header and the Origin header
Request(route, via, json, encryptedData, maxViews, expirationHours, csrfToken, secretId, header) ==
    [route |-> route, via |-> via, json |-> json,
     encryptedData |-> encryptedData, maxViews |-> maxViews,
     expirationHours |-> expirationHours, csrfToken |-> csrfToken,
     secretId |-> secretId, header |-> header, origin |-> NoOrigin]
NoRequest == Request("none", "none", "object", "", JUndefined, JUndefined,
                     NoToken, NoId, NoToken)

\* a response: kind "response" with a status and body, or kind "rejected"
\* when the handler's promise rejected
Response(kind, status, error, encryptedData, viewCount, maxViews, isLastView, createdAt, secretId, expiresAt) ==
    [kind |-> kind, status |-> status, error |-> error,
     encryptedData |-> encryptedData, viewCount |-> viewCount,
     maxViews |-> maxViews, isLastView |-> isLastView,
     createdAt |-> createdAt, secretId |-> secretId, expiresAt |-> expiresAt]
NoResponse == Response("none", 0, "", "", 0, JUndefined, FALSE, 0, NoId, 0)
ErrorResponse(status, error) ==
    Response("response", status, error, "", 0, JUndefined, FALSE, 0, NoId, 0)
Rejected == Response("rejected", 0, "TypeError", "", 0, JUndefined, FALSE, 0,
                     NoId, 0)

\* the handler's locals
Locals(secretId, hashedSecretId, storedData, secretData, expirationSeconds, checkedAt) ==
    [secretId |-> secretId, hashedSecretId |-> hashedSecretId,
     storedData |-> storedData, secretData |-> secretData,
     expirationSeconds |-> expirationSeconds, checkedAt |-> checkedAt]
NoLocals == Locals(NoId, NoId, NoData, NoData, 0, 0)

\* the token under trial: when it was issued, when it was validated and
\* what validateCSRFToken returned
Trial(phase, issuedAt, token, at, result) ==
    [phase |-> phase, issuedAt |-> issuedAt, token |-> token, at |-> at,
     result |-> result]
NoTrial == Trial("none", 0, NoToken, 0, FALSE)

\* one invocation of the client's apiCall: where it stands, the options it
\* was called with, its retry parameter, the fetches of the endpoint it has
\* made, the status and the store operations of its first fetch, the token
\* of its latest fetch and the response it returned
Call(phase, options, retry, sends, firstStatus, firstOps, sentToken, response) ==
    [phase |-> phase, options |-> options, retry |-> retry, sends |-> sends,
     firstStatus |-> firstStatus, firstOps |-> firstOps,
     sentToken |-> sentToken, response |-> response]
NoCall == Call("none", NoRequest, FALSE, 0, 0, 0, NoToken, NoResponse)

\* the secret under trial: how it was encrypted (with which plaintext, key
\* or password), what encryption gave, how decryption was attempted and what
\* it gave
Cipher(phase, mode, plaintext, key, password, sealed, attempt, result) ==
    [phase |-> phase, mode |-> mode, plaintext |-> plaintext, key |-> key,
     password |-> password, sealed |-> sealed, attempt |-> attempt,
     result |-> result]
NoCipher == Cipher("none", "none", <<>>, 0, <<>>, <<>>, <<>>, <<>>)

\* window.currentSecretData (app lines 553-560): what retrieveSecret keeps of
\* a response for the password prompt; held is FALSE for null
CurrentSecretData(held, encryptedData, viewCount, maxViews, isLastView, createdAt) ==
    [held |-> held, encryptedData |-> encryptedData, viewCount |-> viewCount,
     maxViews |-> maxViews, isLastView |-> isLastView, createdAt |-> createdAt]
NoCurrent == CurrentSecretData(FALSE, "", 0, JUndefined, FALSE, 0)

NoBirth ==
    [putAt |-> 0 - 1, hours |-> 0, maxViews |-> JUndefined,
     secretData |-> NoData]

Init ==
    /\ now = 0
    /\ kv = [k \in KvKeys |-> Absent]
    /\ usedRandom = {}
    /\ pc = [p \in Procs |-> "idle"]
    /\ req = [p \in Procs |-> NoRequest]
    /\ loc = [p \in Procs |-> NoLocals]
    /\ resp = [p \in Procs |-> NoResponse]
    /\ kvOps = [p \in Procs |-> 0]
    /\ delivered = [r \in 1..MaxSecrets |-> 0]
    /\ born = [r \in 1..MaxSecrets |-> NoBirth]
    /\ cachedCSRFToken = NoToken
    /\ csrfTokenExpiry = 0
    /\ call = NoCall
    /\ trial = NoTrial
    /\ cipher = NoCipher
    /\ currentSecretData = NoCurrent

(* ------------------------------ the clock ------------------------------ *)
\* the clock advances in steps of half an hour
HALF_HOUR_MS == 30 * 60 * 1000

Tick ==
    /\ now + HALF_HOUR_MS <= MaxHalfHours * HALF_HOUR_MS
    /\ now' = now + HALF_HOUR_MS
    /\ UNCHANGED <<kv, usedRandom, pc, req, loc, resp, kvOps,
                   delivered, born, cachedCSRFToken, csrfTokenExpiry,
                   call, trial, cipher, currentSecretData>>

(* ------------------------- GET /api/csrf-token -------------------------- *)
\* the body of the response of handleGetCSRFToken at time t
HandleGetCSRFToken(t) == GenerateCSRFToken(CSRF_SECRET, t)

\* The endpoint keeps no state and answers any caller, so the tokens in
\* callers' hands at time t are those it would have issued at the instants
\* of the clock up to t
Issued(t) == {HandleGetCSRFToken(k * HALF_HOUR_MS) : k \in 0..(t \div HALF_HOUR_MS)}

(* ------------------------------- fetch --------------------------------- *)
\* worker.ts:32-33 with env.ALLOWED_ORIGINS = APP_ORIGIN
ALLOWED_ORIGINS == {APP_ORIGIN}
IsOriginAllowed(r) == r.origin # NoOrigin /\ r.origin \in ALLOWED_ORIGINS

\* worker.ts:46-51: a request of an origin that is not allowed is answered
\* before any route is looked at; NoResponse when the request goes on
FetchRejection(r) ==
    IF ~IsOriginAllowed(r) /\ r.origin # NoOrigin
    THEN ErrorResponse(403, "Origin not allowed")
    ELSE NoResponse

(* --------------------------- POST /api/create --------------------------- *)
TokenCheckSkipped(r, t) == TRUE

TokenCheckOnce(r, t) ==
    /\ ValidateCSRFToken(r.csrfToken, CSRF_SECRET, t)
    /\ \A k \in DOMAIN kv : ~kv[k].present

\* worker.ts:139 and :204: validateCSRFToken(data.csrfToken, env.CSRF_SECRET)
TokenCheck(r, t) == ValidateCSRFToken(r.csrfToken, CSRF_SECRET, t)

\* the response of the first failing check of handleCreateSecret, NoResponse
\* when all pass; a body that is JSON null makes data.encryptedData throw
CreateRejection(r, t) ==
    IF r.json = "invalid" THEN ErrorResponse(400, "Invalid JSON")
    ELSE IF r.json = "null" THEN Rejected
    ELSE IF \/ r.encryptedData = ""
            \/ r.csrfToken.n = 0
            \/ r.maxViews.k = "undefined"
            \/ r.expirationHours.k = "undefined"
         THEN ErrorResponse(400, "Missing required fields")
    ELSE IF \/ JsLt(ToNumber(r.maxViews), Num(MIN_VIEWS))
            \/ JsGt(ToNumber(r.maxViews), Num(MAX_VIEWS))
         THEN ErrorResponse(400, "Max views must be between 1 and 100")
    ELSE IF \/ JsLt(ToNumber(r.expirationHours), Num(MIN_HOURS))
            \/ JsGt(ToNumber(r.expirationHours), Num(MAX_HOURS))
         THEN ErrorResponse(400, "Expiration hours must be between 1 and 8760")
    ELSE IF ~TokenCheck(r, t) THEN ErrorResponse(403, "Invalid CSRF token")
    ELSE NoResponse

\* worker.ts:152-157
NewSecretData(data, t) == SecretData(data.encryptedData, data.maxViews, 0, t)

\* worker.ts:160
ExpirationSeconds(data) == data.expirationHours.n * SECONDS_PER_HOUR

\* worker.ts:335: 32 random bytes, never drawn before; draws are
\* interchangeable, so the lowest unused number stands for any of them
FreshRandom == {rnd \in 1..MaxSecrets :
                  /\ rnd \notin usedRandom
                  /\ \A q \in 1..MaxSecrets : q < rnd => q \in usedRandom}

\* the slot that takes the next request: the lowest idle one
Idle(p) ==
    /\ pc[p] = "idle"
    /\ \A q \in Procs : q < p => pc[q] # "idle"

\* fetch, then handleCreateSecret up to its first await on the store
\* (lines 103-160)
CreateReceive(p, r) ==
    /\ Idle(p)
    /\ r.route = "create"
    /\ req' = [req EXCEPT ![p] = r]
    /\ LET rejection == IF FetchRejection(r) # NoResponse
                         THEN FetchRejection(r)
                         ELSE CreateRejection(r, now)
       IN IF rejection # NoResponse
          THEN /\ pc' = [pc EXCEPT ![p] = "done"]
               /\ resp' = [resp EXCEPT ![p] = rejection]
               /\ loc' = [loc EXCEPT ![p] =
                            Locals(NoId, NoId, NoData, NoData, 0, now)]
               /\ UNCHANGED usedRandom
          ELSE \E rnd \in FreshRandom :
               /\ usedRandom' = usedRandom \cup {rnd}
               /\ pc' = [pc EXCEPT ![p] = "c_put"]
               /\ loc' = [loc EXCEPT ![p] =
                            Locals(GenerateSecretId(rnd),
                                   HashSecretId(GenerateSecretId(rnd)),
                                   NoData, NewSecretData(r, now),
                                   ExpirationSeconds(r), now)]
               /\ UNCHANGED resp
    /\ UNCHANGED <<now, kv, kvOps, delivered, born, trial, cipher,
                   currentSecretData>>

HandleCreateSecret(p, r) ==
    /\ CreateReceive(p, r)
    /\ UNCHANGED <<cachedCSRFToken, csrfTokenExpiry, call>>

CreateStoreNoTtl(store, key, value, ttlSeconds, t) == KvPut(store, key, value)

\* worker.ts:164-166
CreateStore(store, key, value, ttlSeconds, t) ==
    KvPutTtl(store, key, value, ttlSeconds, t)

\* worker.ts:175-181: no status is given, so the response is 200
CreateResponse(secretId, expirationSeconds, maxViews, t) ==
    Response("response", 200, "", "", 0, maxViews, FALSE, 0, secretId,
             t + expirationSeconds * MS_PER_SECOND)

\* the store write of handleCreateSecret succeeds (lines 162-181)
CreatePut(p) ==
    /\ pc[p] = "c_put"
    /\ kv' = CreateStore(kv, loc[p].hashedSecretId, loc[p].secretData,
                         loc[p].expirationSeconds, now)
    /\ kvOps' = [kvOps EXCEPT ![p] = @ + 1]
    /\ born' = [born EXCEPT ![loc[p].secretId.r] =
                  [putAt |-> now, hours |-> req[p].expirationHours.n,
                   maxViews |-> req[p].maxViews,
                   secretData |-> loc[p].secretData]]
    /\ resp' = [resp EXCEPT ![p] =
                  CreateResponse(loc[p].secretId, loc[p].expirationSeconds,
                                 req[p].maxViews, now)]
    /\ pc' = [pc EXCEPT ![p] = "done"]
    /\ UNCHANGED <<now, usedRandom, req, loc, delivered,
                   cachedCSRFToken, csrfTokenExpiry,
                   call, trial, cipher, currentSecretData>>

\* the store write of handleCreateSecret throws (lines 167-173)
CreatePutFail(p) ==
    /\ pc[p] = "c_put"
    /\ kvOps' = [kvOps EXCEPT ![p] = @ + 1]
    /\ resp' = [resp EXCEPT ![p] = ErrorResponse(500, "Failed to store secret")]
    /\ pc' = [pc EXCEPT ![p] = "done"]
    /\ UNCHANGED <<now, kv, usedRandom, req, loc, delivered, born,
                   cachedCSRFToken, csrfTokenExpiry,
                   call, trial, cipher, currentSecretData>>

(* -------------------------- POST /api/retrieve -------------------------- *)
\* the response of the first failing check of handleRetrieveSecret
RetrieveRejection(r, t) ==
    IF r.json = "invalid" THEN ErrorResponse(400, "Invalid JSON")
    ELSE IF r.json = "null" THEN Rejected
    ELSE IF r.secretId.r = 0 \/ r.csrfToken.n = 0
         THEN ErrorResponse(400, "Missing secretId or csrfToken")
    ELSE IF ~TokenCheck(r, t) THEN ErrorResponse(403, "Invalid CSRF token")
    ELSE NoResponse

\* handleRetrieveSecret up to its first await on the store (lines 184-212)
RetrieveReceive(p, r) ==
    /\ Idle(p)
    /\ \A d \in DOMAIN delivered : delivered[d] < MaxDelivered
    /\ r.route = "retrieve"
    /\ req' = [req EXCEPT ![p] = r]
    /\ LET rejection == IF FetchRejection(r) # NoResponse
                         THEN FetchRejection(r)
                         ELSE RetrieveRejection(r, now)
       IN IF rejection # NoResponse
          THEN /\ pc' = [pc EXCEPT ![p] = "done"]
               /\ resp' = [resp EXCEPT ![p] = rejection]
               /\ loc' = [loc EXCEPT ![p] =
                            Locals(NoId, NoId, NoData, NoData, 0, now)]
          ELSE /\ pc' = [pc EXCEPT ![p] = "r_get"]
               /\ loc' = [loc EXCEPT ![p] =
                            Locals(r.secretId, HashSecretId(r.secretId),
                                   NoData, NoData, 0, now)]
               /\ UNCHANGED resp
    /\ UNCHANGED <<now, kv, usedRandom, kvOps, delivered, born, trial, cipher,
                   currentSecretData>>

HandleRetrieveSecret(p, r) ==
    /\ RetrieveReceive(p, r)
    /\ UNCHANGED <<cachedCSRFToken, csrfTokenExpiry, call>>

ViewsExhaustedStrict(sd) == JsGt(Num(sd.viewCount), ToNumber(sd.maxViews))

\* worker.ts:244 and :259: secretData.viewCount >= secretData.maxViews
ViewsExhausted(sd) == JsGe(Num(sd.viewCount), ToNumber(sd.maxViews))

\* worker.ts:253: secretData.viewCount++
IncrementViewCount(sd) == [sd EXCEPT !.viewCount = @ + 1]

\* the store read of handleRetrieveSecret succeeds (lines 214-259): the
\* handler answers 404, or goes on to the delete of line 245, the delete of
\* line 261 or the put of line 268
RetrieveGet(p) ==
    /\ pc[p] = "r_get"
    /\ kvOps' = [kvOps EXCEPT ![p] = @ + 1]
    /\ IF ~KvLive(kv, loc[p].hashedSecretId, now)
       THEN /\ resp' = [resp EXCEPT ![p] =
                          ErrorResponse(404, "Secret not found or expired")]
            /\ pc' = [pc EXCEPT ![p] = "done"]
            /\ UNCHANGED loc
       ELSE LET storedData == kv[loc[p].hashedSecretId].value
            IN IF ViewsExhausted(storedData)
               THEN /\ loc' = [loc EXCEPT ![p].storedData = storedData,
                                          ![p].secretData = storedData]
                    /\ pc' = [pc EXCEPT ![p] = "r_del410"]
                    /\ UNCHANGED resp
               ELSE LET secretData == IncrementViewCount(storedData)
                    IN /\ loc' = [loc EXCEPT ![p].storedData = storedData,
                                             ![p].secretData = secretData]
                       /\ pc' = [pc EXCEPT ![p] =
                                   IF ViewsExhausted(secretData)
                                   THEN "r_delete" ELSE "r_put"]
                       /\ UNCHANGED resp
    /\ UNCHANGED <<now, kv, usedRandom, req, delivered, born,
                   cachedCSRFToken, csrfTokenExpiry,
                   call, trial, cipher, currentSecretData>>

\* the store read of handleRetrieveSecret throws (lines 218-224)
RetrieveGetFail(p) ==
    /\ pc[p] = "r_get"
    /\ kvOps' = [kvOps EXCEPT ![p] = @ + 1]
    /\ resp' = [resp EXCEPT ![p] =
                  ErrorResponse(500, "Failed to retrieve secret")]
    /\ pc' = [pc EXCEPT ![p] = "done"]
    /\ UNCHANGED <<now, kv, usedRandom, req, loc, delivered, born,
                   cachedCSRFToken, csrfTokenExpiry,
                   call, trial, cipher, currentSecretData>>

RetrieveResponseLastAtCount(sd) ==
    Response("response", 200, "", sd.encryptedData, sd.viewCount,
             sd.maxViews, sd.viewCount = 1, sd.createdAt, NoId, 0)

RetrieveResponsePreIncrement(sd) ==
    Response("response", 200, "", sd.encryptedData, sd.viewCount - 1,
             sd.maxViews, ViewsExhausted(sd), sd.createdAt, NoId, 0)

\* worker.ts:274-282, from the incremented secretData
RetrieveResponse(sd) ==
    Response("response", 200, "", sd.encryptedData, sd.viewCount,
             sd.maxViews, ViewsExhausted(sd), sd.createdAt, NoId, 0)

WriteBackRestamped(store, key, sd, t) ==
    KvPut(store, key, [sd EXCEPT !.createdAt = t + 1])

\* worker.ts:268: SECRETS_KV.put(hashedSecretId, JSON.stringify(secretData))
WriteBack(store, key, sd, t) == KvPut(store, key, sd)

\* one more 200 response of retrieve for the record under key
CountDelivered(key) ==
    IF key \in StoreKeys THEN [delivered EXCEPT ![key.r] = @ + 1]
    ELSE delivered

\* the store write of handleRetrieveSecret succeeds, and the response:
\* line 245 (then 410), line 261 or line 268 (then 200, lines 274-282)
RetrieveWrite(p) ==
    /\ pc[p] \in {"r_del410", "r_delete", "r_put"}
    /\ kvOps' = [kvOps EXCEPT ![p] = @ + 1]
    /\ IF pc[p] = "r_del410"
       THEN /\ kv' = KvDelete(kv, loc[p].hashedSecretId)
            /\ resp' = [resp EXCEPT ![p] =
                          ErrorResponse(410, "Secret has exceeded maximum views")]
            /\ UNCHANGED delivered
       ELSE /\ kv' = IF pc[p] = "r_delete"
                     THEN KvDelete(kv, loc[p].hashedSecretId)
                     ELSE WriteBack(kv, loc[p].hashedSecretId,
                                    loc[p].secretData, now)
            /\ resp' = [resp EXCEPT ![p] = RetrieveResponse(loc[p].secretData)]
            /\ delivered' = CountDelivered(loc[p].hashedSecretId)
    /\ pc' = [pc EXCEPT ![p] = "done"]
    /\ UNCHANGED <<now, usedRandom, req, loc, born,
                   cachedCSRFToken, csrfTokenExpiry,
                   call, trial, cipher, currentSecretData>>

\* the store write of handleRetrieveSecret throws: the delete of line 245 is
\* not guarded, the catch blocks of lines 262 and 269 only log
RetrieveWriteFail(p) ==
    /\ pc[p] \in {"r_del410", "r_delete", "r_put"}
    /\ kvOps' = [kvOps EXCEPT ![p] = @ + 1]
    /\ IF pc[p] = "r_del410"
       THEN /\ resp' = [resp EXCEPT ![p] = Rejected]
            /\ UNCHANGED delivered
       ELSE /\ resp' = [resp EXCEPT ![p] = RetrieveResponse(loc[p].secretData)]
            /\ delivered' = CountDelivered(loc[p].hashedSecretId)
    /\ pc' = [pc EXCEPT ![p] = "done"]
    /\ UNCHANGED <<now, kv, usedRandom, req, loc, born,
                   cachedCSRFToken, csrfTokenExpiry,
                   call, trial, cipher, currentSecretData>>

\* the caller has its response; the slot is free for the next request (a
\* response to apiCall is taken by apiCall, below)
Finish(p) ==
    /\ pc[p] = "done"
    /\ req[p].via # "apiCall"
    /\ pc' = [pc EXCEPT ![p] = "idle"]
    /\ req' = [req EXCEPT ![p] = NoRequest]
    /\ loc' = [loc EXCEPT ![p] = NoLocals]
    /\ resp' = [resp EXCEPT ![p] = NoResponse]
    /\ kvOps' = [kvOps EXCEPT ![p] = 0]
    /\ UNCHANGED <<now, kv, usedRandom, delivered, born,
                   cachedCSRFToken, csrfTokenExpiry,
                   call, trial, cipher, currentSecretData>>

(* ------------------------- the browser client -------------------------- *)
CacheHitNoExpiry == cachedCSRFToken # NoToken /\ csrfTokenExpiry # 0

\* getCSRFToken returns the cached token (app lines 36-38)
CacheHit ==
    /\ cachedCSRFToken # NoToken
    /\ csrfTokenExpiry # 0
    /\ now < csrfTokenExpiry

\* the token getCSRFToken returns: the cached one, or the one the worker
\* issues now (app lines 34-63)
GetCSRFToken == IF CacheHit THEN cachedCSRFToken
                ELSE HandleGetCSRFToken(now)

\* the request apiCall sends (app lines 99-116): the caller's options with
\* the token in the X-CSRF-Token header; options.body goes out as it came
SentByApiCall(options, csrfToken) ==
    [options EXCEPT !.via = "apiCall", !.header = csrfToken]

ClearCSRFTokenSkipped == UNCHANGED <<cachedCSRFToken, csrfTokenExpiry>>

\* app lines 79-82
ClearCSRFToken ==
    /\ cachedCSRFToken' = NoToken
    /\ csrfTokenExpiry' = 0

\* app lines 96-116: getCSRFToken, then the fetch, which the worker receives
ApiCallSend(p, options) ==
    /\ IF CacheHit
       THEN UNCHANGED <<cachedCSRFToken, csrfTokenExpiry>>
       ELSE /\ cachedCSRFToken' = GetCSRFToken
            /\ csrfTokenExpiry' = now + CSRF_TOKEN_CACHE_DURATION
    /\ IF options.route = "create"
       THEN CreateReceive(p, SentByApiCall(options, GetCSRFToken))
       ELSE RetrieveReceive(p, SentByApiCall(options, GetCSRFToken))

\* apiCall(endpoint, options): retry = false
ApiCall(p, options) ==
    /\ call.phase = "none"
    /\ ApiCallSend(p, options)
    /\ call' = Call("sent", options, FALSE, 1, 0, 0, GetCSRFToken, NoResponse)

ApiCallRetriesUnconditional(status, retry) == ~retry

\* app line 121: response.status === 403 && !retry
ApiCallRetries(status, retry) == status = 403 /\ ~retry

\* the response of the handler as fetch gives it to the client: a handler
\* that threw is a response of the runtime, status 500
Fetched(response) ==
    IF response.kind = "rejected" THEN ErrorResponse(500, "exception")
    ELSE response

\* app lines 121-125: a 403 on the first fetch: clearCSRFToken, then
\* apiCall(endpoint, options, true)
ApiCallRetry(p) ==
    /\ pc[p] = "done"
    /\ req[p].via = "apiCall"
    /\ call.phase = "sent"
    /\ ApiCallRetries(Fetched(resp[p]).status, call.retry)
    /\ ClearCSRFToken
    /\ call' = [call EXCEPT !.phase = "retry", !.retry = TRUE,
                   !.firstStatus = IF call.sends = 1
                                   THEN Fetched(resp[p]).status ELSE @,
                   !.firstOps = IF call.sends = 1 THEN kvOps[p] ELSE @]
    /\ pc' = [pc EXCEPT ![p] = "idle"]
    /\ req' = [req EXCEPT ![p] = NoRequest]
    /\ loc' = [loc EXCEPT ![p] = NoLocals]
    /\ resp' = [resp EXCEPT ![p] = NoResponse]
    /\ kvOps' = [kvOps EXCEPT ![p] = 0]
    /\ UNCHANGED <<now, kv, usedRandom, delivered, born, trial, cipher,
                   currentSecretData>>

\* the recursive call of app line 124 gets its token and fetches
ApiCallResend(p) ==
    /\ call.phase = "retry"
    /\ call.sends < MaxSends
    /\ ApiCallSend(p, call.options)
    /\ call' = [call EXCEPT !.phase = "sent", !.sends = @ + 1,
                   !.sentToken = GetCSRFToken]

\* app line 127: return response
ApiCallReturn(p) ==
    /\ pc[p] = "done"
    /\ req[p].via = "apiCall"
    /\ call.phase = "sent"
    /\ ~ApiCallRetries(Fetched(resp[p]).status, call.retry)
    /\ call' = [call EXCEPT !.phase = "returned",
                   !.response = Fetched(resp[p]),
                   !.firstStatus = IF call.sends = 1
                                   THEN Fetched(resp[p]).status ELSE @,
                   !.firstOps = IF call.sends = 1 THEN kvOps[p] ELSE @]
    /\ pc' = [pc EXCEPT ![p] = "idle"]
    /\ req' = [req EXCEPT ![p] = NoRequest]
    /\ loc' = [loc EXCEPT ![p] = NoLocals]
    /\ resp' = [resp EXCEPT ![p] = NoResponse]
    /\ kvOps' = [kvOps EXCEPT ![p] = 0]
    /\ UNCHANGED <<now, kv, usedRandom, delivered, born, cachedCSRFToken,
                   csrfTokenExpiry, trial, cipher, currentSecretData>>

\* the caller of apiCall goes on with the response
ApiCallDone ==
    /\ call.phase = "returned"
    /\ call' = NoCall
    /\ UNCHANGED <<now, kv, usedRandom, pc, req, loc, resp, kvOps,
                   delivered, born, cachedCSRFToken, csrfTokenExpiry,
                   trial, cipher, currentSecretData>>

\* response.ok of fetch
ResponseOk(response) == 200 <= response.status /\ response.status <= 299

\* retrieveSecret after its apiCall returned (app lines 507-575), mode being
\* the mode the URL gave and type the type written in the envelope: an
\* error response or a type of the other mode ends in an error message; in
\* password mode the response is kept for the prompt; in key mode
\* decryptSecret runs at once
RetrieveSecretResponse(mode, type) ==
    /\ call.phase = "returned"
    /\ call.options.route = "retrieve"
    /\ currentSecretData' =
          IF /\ ResponseOk(call.response)
             /\ type = (IF mode = "key-based" THEN "key" ELSE "password")
             /\ (type = "password" \/ mode = "password-based")
          THEN CurrentSecretData(TRUE, call.response.encryptedData,
                                 call.response.viewCount,
                                 call.response.maxViews,
                                 call.response.isLastView,
                                 call.response.createdAt)
          ELSE currentSecretData
    /\ call' = NoCall
    /\ UNCHANGED <<now, kv, usedRandom, pc, req, loc, resp, kvOps,
                   delivered, born, cachedCSRFToken, csrfTokenExpiry,
                   trial, cipher>>

\* decryptWithPassword of the password prompt (app lines 609-680), opens
\* telling whether decryptSecretWithPassword returned: it works on
\* window.currentSecretData, which it clears once the secret is open and
\* keeps after a failure
DecryptWithPasswordPrompt(opens) ==
    /\ currentSecretData.held
    /\ currentSecretData' = IF opens THEN NoCurrent ELSE currentSecretData
    /\ UNCHANGED <<now, kv, usedRandom, pc, req, loc, resp, kvOps,
                   delivered, born, cachedCSRFToken, csrfTokenExpiry,
                   call, trial, cipher>>

(* ------------------- the browser's crypto (crypto.js) ------------------- *)
\* crypto.js:9-12
KEY_LENGTH == 256
IV_LENGTH == 12
TAG_LENGTH == 128
PBKDF2_ITERATIONS == 100000
\* crypto.js:39: the salt is 32 random bytes
SALT_BYTES == 32
BITS_PER_BYTE == 8

\* A byte is a literal 0..255 or a byte of an unpredictable value: the i-th
\* byte of src, where src names a random draw or the output of a primitive
Lit(n) == [t |-> "lit", n |-> n]
Sym(src, i) == [t |-> "sym", src |-> src, i |-> i]
LitBytes(ns) == [j \in 1..Len(ns) |-> Lit(ns[j])]
SymBytes(src, len) == [j \in 1..len |-> Sym(src, j)]

\* a short name for a byte string, to stand for it inside src: the src and
\* length of a whole unpredictable value, the bytes themselves otherwise
Name(bytes) ==
    IF bytes # <<>> /\ bytes[1].t = "sym" /\ bytes = SymBytes(bytes[1].src, Len(bytes))
    THEN [whole |-> TRUE, src |-> bytes[1].src, len |-> Len(bytes), bytes |-> <<>>]
    ELSE [whole |-> FALSE, src |-> [k |-> "none"], len |-> Len(bytes), bytes |-> bytes]

\* crypto.getRandomValues(new Uint8Array(len)), draw number d of its kind
RandomValues(kind, d, len) == SymBytes([k |-> kind, d |-> d], len)

\* bits of a byte, most significant first; a bit is 0, 1 or a bit of an
\* unpredictable byte
BitLit(v) == [t |-> "lit", v |-> v]
BitOf(b, i) == [t |-> "of", b |-> b, i |-> i]
RECURSIVE Pow2(_)
Pow2(e) == IF e = 0 THEN 1 ELSE 2 * Pow2(e - 1)
Bits(b) ==
    IF b.t = "lit"
    THEN [i \in 1..BITS_PER_BYTE |->
            BitLit((b.n \div Pow2(BITS_PER_BYTE - i)) % 2)]
    ELSE [i \in 1..BITS_PER_BYTE |-> BitOf(b, i)]

\* the number that literal bits spell
RECURSIVE BitsValue(_)
BitsValue(bs) ==
    IF bs = <<>> THEN 0
    ELSE 2 * BitsValue(SubSeq(bs, 1, Len(bs) - 1)) + bs[Len(bs)].v

\* the byte that eight bits make
FromBits(bs) ==
    IF \A i \in 1..Len(bs) : bs[i].t = "lit" THEN Lit(BitsValue(bs))
    ELSE IF /\ \A i \in 1..Len(bs) : bs[i].t = "of" /\ bs[i].i = i
            /\ \A i \in 1..Len(bs) : bs[i].b = bs[1].b
         THEN bs[1].b
    ELSE [t |-> "mixed", bits |-> bs]

RECURSIVE BitsOfBytes(_)
BitsOfBytes(bytes) ==
    IF bytes = <<>> THEN <<>>
    ELSE Bits(Head(bytes)) \o BitsOfBytes(Tail(bytes))

\* s cut into pieces of n items; the last piece may be shorter
RECURSIVE Chunks(_, _)
Chunks(s, n) ==
    IF s = <<>> THEN <<>>
    ELSE IF Len(s) <= n THEN <<s>>
    ELSE <<SubSeq(s, 1, n)>> \o Chunks(SubSeq(s, n + 1, Len(s)), n)

RECURSIVE Concat(_)
Concat(ss) == IF ss = <<>> THEN <<>> ELSE Head(ss) \o Concat(Tail(ss))

\* A character of a base64 text: the sextet it stands for, whether it is
\* written in the URL-safe way ('-' for 62, '_' for 63; a sextet that is
\* not literal may be either of them), or the padding '='
SEXTET_BITS == 6
Char(six, urlSafe) == [pad |-> FALSE, six |-> six, urlSafe |-> urlSafe]
PadChar == [pad |-> TRUE, six |-> <<>>, urlSafe |-> FALSE]
IsLiteralSextet(six) == \A i \in 1..Len(six) : six[i].t = "lit"
\* may the sextet be 62 ('+') or 63 ('/')
MayBeSpecial(six) == ~IsLiteralSextet(six) \/ BitsValue(six) >= 62

ZeroBits(n) == [i \in 1..n |-> BitLit(0)]

\* btoa(binary): 3 bytes make 4 characters, the last group is filled with
\* zero bits and '='
Btoa(bytes) ==
    LET bits == BitsOfBytes(bytes)
        fill == (SEXTET_BITS - (Len(bits) % SEXTET_BITS)) % SEXTET_BITS
        sextets == Chunks(bits \o ZeroBits(fill), SEXTET_BITS)
        chars == [j \in 1..Len(sextets) |-> Char(sextets[j], FALSE)]
        pads == (4 - (Len(chars) % 4)) % 4
    IN chars \o [j \in 1..pads |-> PadChar]

\* .replace(/\+/g, '-').replace(/\//g, '_')
ToUrlSafe(text) ==
    [j \in 1..Len(text) |->
        IF ~text[j].pad /\ MayBeSpecial(text[j].six)
        THEN Char(text[j].six, TRUE) ELSE text[j]]

\* .replace(/=+$/, '')
RECURSIVE StripPadding(_)
StripPadding(text) ==
    IF text # <<>> /\ text[Len(text)].pad
    THEN StripPadding(SubSeq(text, 1, Len(text) - 1))
    ELSE text

\* the encoding that keeps the padding
ArrayBufferToBase64Padded(bytes) == ToUrlSafe(Btoa(bytes))

\* crypto.js:211-222
ArrayBufferToBase64(bytes) == StripPadding(ToUrlSafe(Btoa(bytes)))

\* .replace(/=/g, '')
StripEveryPadding(text) == SelectSeq(text, LAMBDA c : ~c.pad)

\* worker.ts:347-353
Base64urlEncode(buffer) == StripEveryPadding(ToUrlSafe(Btoa(buffer)))

\* .replace(/-/g, '+').replace(/_/g, '/')
FromUrlSafe(text) ==
    [j \in 1..Len(text) |->
        IF text[j].pad THEN text[j] ELSE Char(text[j].six, FALSE)]

\* crypto.js:236-239
AddPadding(text) ==
    LET padding == 4 - (Len(text) % 4)
    IN IF padding # 4 THEN text \o [j \in 1..padding |-> PadChar] ELSE text

\* the outcome of an operation that may throw
Ok(value) == [ok |-> TRUE, value |-> value, error |-> ""]
Thrown(error) == [ok |-> FALSE, value |-> <<>>, error |-> error]

\* atob(base64), the forgiving-base64 decode: up to two '=' are dropped from
\* a text whose length is a multiple of 4; a length of 1 mod 4 or a
\* character outside the alphabet throws; left-over bits are dropped
Atob(text) ==
    LET n == Len(text)
        drop == IF n % 4 = 0 /\ n >= 2 /\ text[n].pad /\ text[n - 1].pad THEN 2
                ELSE IF n % 4 = 0 /\ n >= 1 /\ text[n].pad THEN 1
                ELSE 0
        data == SubSeq(text, 1, n - drop)
    IN IF \/ Len(data) % 4 = 1
          \/ \E j \in 1..Len(data) : data[j].pad \/ data[j].urlSafe
       THEN Thrown("InvalidCharacterError")
       ELSE LET bits == Concat([j \in 1..Len(data) |-> data[j].six])
                whole == Len(bits) - (Len(bits) % BITS_PER_BYTE)
                octets == Chunks(SubSeq(bits, 1, whole), BITS_PER_BYTE)
            IN Ok([j \in 1..Len(octets) |-> FromBits(octets[j])])

Base64ToArrayBufferUrlKept(text) == Atob(AddPadding(text))

\* crypto.js:229-247
Base64ToArrayBuffer(text) == Atob(AddPadding(FromUrlSafe(text)))

\* UTF-16 code units that matter to TextEncoder and TextDecoder
BOM == 65279
REPLACEMENT == 65533
HIGH_SURROGATE_MIN == 55296
LOW_SURROGATE_MIN == 56320
LOW_SURROGATE_MAX == 57343
IsHighSurrogate(c) == HIGH_SURROGATE_MIN <= c /\ c < LOW_SURROGATE_MIN
IsLowSurrogate(c) == LOW_SURROGATE_MIN <= c /\ c <= LOW_SURROGATE_MAX

\* UTF-8 of one code point
EncodeCodePoint(cp) ==
    IF cp < 128 THEN <<cp>>
    ELSE IF cp < 2048 THEN <<192 + (cp \div 64), 128 + (cp % 64)>>
    ELSE IF cp < 65536
         THEN <<224 + (cp \div 4096), 128 + ((cp \div 64) % 64),
                128 + (cp % 64)>>
    ELSE <<240 + (cp \div 262144), 128 + ((cp \div 4096) % 64),
           128 + ((cp \div 64) % 64), 128 + (cp % 64)>>

\* new TextEncoder().encode(s): a surrogate pair is one code point, a
\* surrogate on its own is encoded as U+FFFD
RECURSIVE TextEncode(_)
TextEncode(s) ==
    IF s = <<>> THEN <<>>
    ELSE IF /\ IsHighSurrogate(s[1])
            /\ Len(s) >= 2 /\ IsLowSurrogate(s[2])
         THEN EncodeCodePoint(65536 + (s[1] - HIGH_SURROGATE_MIN) * 1024
                                    + (s[2] - LOW_SURROGATE_MIN))
              \o TextEncode(SubSeq(s, 3, Len(s)))
    ELSE IF IsHighSurrogate(s[1]) \/ IsLowSurrogate(s[1])
         THEN EncodeCodePoint(REPLACEMENT) \o TextEncode(Tail(s))
    ELSE EncodeCodePoint(s[1]) \o TextEncode(Tail(s))

IsContinuation(b) == 128 <= b /\ b < 192

\* code units of one code point
CodeUnits(cp) ==
    IF cp < 65536 THEN <<cp>>
    ELSE <<HIGH_SURROGATE_MIN + ((cp - 65536) \div 1024),
           LOW_SURROGATE_MIN + ((cp - 65536) % 1024)>>

\* UTF-8 decoding without the fatal flag: a byte that does not start a
\* well-formed sequence gives U+FFFD
RECURSIVE Utf8Decode(_)
Utf8Decode(b) ==
    IF b = <<>> THEN <<>>
    ELSE IF b[1] < 128 THEN <<b[1]>> \o Utf8Decode(Tail(b))
    ELSE IF /\ 194 <= b[1] /\ b[1] < 224
            /\ Len(b) >= 2 /\ IsContinuation(b[2])
         THEN CodeUnits((b[1] - 192) * 64 + (b[2] - 128))
              \o Utf8Decode(SubSeq(b, 3, Len(b)))
    ELSE IF /\ 224 <= b[1] /\ b[1] < 240
            /\ Len(b) >= 3 /\ IsContinuation(b[2]) /\ IsContinuation(b[3])
            /\ (b[1] - 224) * 4096 + (b[2] - 128) * 64 >= 2048
            /\ ~(/\ (b[1] - 224) * 4096 + (b[2] - 128) * 64 >= HIGH_SURROGATE_MIN
                 /\ (b[1] - 224) * 4096 + (b[2] - 128) * 64 <= LOW_SURROGATE_MAX)
         THEN CodeUnits((b[1] - 224) * 4096 + (b[2] - 128) * 64 + (b[3] - 128))
              \o Utf8Decode(SubSeq(b, 4, Len(b)))
    ELSE IF /\ 240 <= b[1] /\ b[1] < 245
            /\ Len(b) >= 4 /\ IsContinuation(b[2]) /\ IsContinuation(b[3])
            /\ IsContinuation(b[4])
            /\ (b[1] - 240) * 262144 + (b[2] - 128) * 4096 >= 65536
            /\ (b[1] - 240) * 262144 + (b[2] - 128) * 4096 < 1114112
         THEN CodeUnits((b[1] - 240) * 262144 + (b[2] - 128) * 4096
                        + (b[3] - 128) * 64 + (b[4] - 128))
              \o Utf8Decode(SubSeq(b, 5, Len(b)))
    ELSE <<REPLACEMENT>> \o Utf8Decode(Tail(b))

\* new TextDecoder().decode(bytes): ignoreBOM is false, so a byte order
\* mark at the start is left out of the result
TextDecode(b) ==
    LET units == Utf8Decode(b)
    IN IF units # <<>> /\ units[1] = BOM THEN Tail(units) ELSE units

\* the numbers of literal bytes
Numbers(bytes) == [j \in 1..Len(bytes) |-> bytes[j].n]

\* a CryptoKey for AES-GCM: its raw bytes and whether they may be exported
CryptoKey(raw, extractable) == [raw |-> raw, extractable |-> extractable]

\* crypto.js:19-28: generateKey, random draw d
GenerateKey(d) ==
    CryptoKey(RandomValues("key", d, KEY_LENGTH \div BITS_PER_BYTE), TRUE)

\* crypto.subtle.deriveKey with PBKDF2: a function of the password bytes,
\* the salt, the iteration count and the hash, with no collisions
Pbkdf2(passwordBytes, salt) ==
    SymBytes([k |-> "pbkdf2", pw |-> Name(passwordBytes), salt |-> Name(salt),
              iterations |-> PBKDF2_ITERATIONS],
             KEY_LENGTH \div BITS_PER_BYTE)

\* crypto.js:36-69 with the salt given
DeriveKeyFromPassword(password, salt) ==
    [key |-> CryptoKey(Pbkdf2(LitBytes(TextEncode(password)), salt), FALSE),
     salt |-> salt]

\* crypto.js:76-79: exportKey throws for a key that is not extractable
ExportKeyToBase64(key) ==
    IF key.extractable THEN Ok(ArrayBufferToBase64(key.raw))
    ELSE Thrown("InvalidAccessError")

AES_KEY_BYTES == {16, 24, 32}

\* crypto.js:86-98: importKey throws for raw data that is not an AES key
ImportKeyFromBase64(base64urlKey) ==
    LET keyData == Base64ToArrayBuffer(base64urlKey)
    IN IF ~keyData.ok THEN keyData
       ELSE IF Len(keyData.value) \notin AES_KEY_BYTES THEN Thrown("DataError")
       ELSE Ok(CryptoKey(keyData.value, FALSE))

\* crypto.subtle.encrypt with AES-GCM: as many ciphertext bytes as the
\* plaintext has, then the tag; every byte is a function of key, iv and
\* plaintext that nobody without the key can compute
Sealed(key, iv, plain) == [k |-> "aes-gcm", key |-> Name(key.raw), iv |-> Name(iv), plain |-> plain]
AesGcmEncrypt(key, iv, plain) ==
    SymBytes(Sealed(key, iv, plain), Len(plain) + (TAG_LENGTH \div BITS_PER_BYTE))

\* crypto.subtle.decrypt with AES-GCM: the plaintext if data is what encrypt
\* made of it under this key and iv, OperationError otherwise
AesGcmDecrypt(key, iv, data) ==
    IF /\ data # <<>>
       /\ data[1].t = "sym"
       /\ data[1].src.k = "aes-gcm"
       /\ data = AesGcmEncrypt(key, iv, data[1].src.plain)
    THEN Ok(data[1].src.plain)
    ELSE Thrown("OperationError")

\* crypto.js:108: the iv of encrypt, random draw d
EncryptIv(d) == RandomValues("iv", d, IV_LENGTH)

\* crypto.js:106-131
Encrypt(plaintext, key, d) ==
    LET iv == EncryptIv(d)
        encodedText == LitBytes(TextEncode(plaintext))
        encrypted == AesGcmEncrypt(key, iv, encodedText)
        combined == iv \o encrypted
    IN ArrayBufferToBase64(combined)

DECRYPTION_FAILED == "Decryption failed. Invalid key or corrupted data."

SliceFrom(s, n) == IF Len(s) <= n THEN <<>> ELSE SubSeq(s, n + 1, Len(s))
SliceTo(s, n) == IF Len(s) <= n THEN s ELSE SubSeq(s, 1, n)

DecryptErrorsDistinct(encryptedData, key) ==
    LET combined == Base64ToArrayBuffer(encryptedData)
    IN IF ~combined.ok THEN Thrown(combined.error)
       ELSE LET decrypted == AesGcmDecrypt(key, SliceTo(combined.value, IV_LENGTH),
                                           SliceFrom(combined.value, IV_LENGTH))
            IN IF ~decrypted.ok THEN Thrown(decrypted.error)
               ELSE Ok(TextDecode(Numbers(decrypted.value)))

\* crypto.js:139-164: whatever is thrown inside becomes the one Error
Decrypt(encryptedData, key) ==
    LET combined == Base64ToArrayBuffer(encryptedData)
    IN IF ~combined.ok THEN Thrown(DECRYPTION_FAILED)
       ELSE LET decrypted == AesGcmDecrypt(key, SliceTo(combined.value, IV_LENGTH),
                                           SliceFrom(combined.value, IV_LENGTH))
            IN IF ~decrypted.ok THEN Thrown(DECRYPTION_FAILED)
               ELSE Ok(TextDecode(Numbers(decrypted.value)))

\* crypto.js:172-179, salt random draw s, iv random draw d
EncryptWithPassword(plaintext, password, s, d) ==
    LET derived == DeriveKeyFromPassword(password, RandomValues("salt", s, SALT_BYTES))
    IN [encryptedData |-> Encrypt(plaintext, derived.key, d),
        salt |-> ArrayBufferToBase64(derived.salt)]

\* crypto.js:188-192: the salt is decoded outside decrypt's try block
DecryptWithPassword(encryptedData, password, saltBase64) ==
    LET salt == Base64ToArrayBuffer(saltBase64)
    IN IF ~salt.ok THEN salt
       ELSE Decrypt(encryptedData, DeriveKeyFromPassword(password, salt.value).key)

\* crypto.js:303-316, key random draw k, iv random draw d
EncryptSecret(secret, key, d) ==
    [encryptedData |-> Encrypt(secret, key, d),
     key |-> ExportKeyToBase64(key).value]

\* crypto.js:324-331
DecryptSecret(encryptedData, keyBase64) ==
    LET key == ImportKeyFromBase64(keyBase64)
    IN IF ~key.ok THEN key ELSE Decrypt(encryptedData, key.value)

(* ------------------------------ requests ------------------------------- *)
CreateBody(encryptedData, maxViews, expirationHours, csrfToken) ==
    Request("create", "api", "object", encryptedData, maxViews,
            expirationHours, csrfToken, NoId, NoToken)

RetrieveBody(secretId, csrfToken) ==
    Request("retrieve", "api", "object", "", JUndefined, JUndefined,
            csrfToken, secretId, NoToken)

\* token texts a caller can make without the worker's secret, at time t
BadSignature(t) == Token(2, NumberToString(t), GarbageHex)
ForgedTokens(t) ==
    {NoToken,
     Token(1, NumberToString(t), EmptyString),
     Token(3, NumberToString(t), GarbageHex),
     Token(2, <<>>, GarbageHex),
     Token(2, NumberToString(t), EmptyString),
     BadSignature(t),
     GenerateCSRFToken(OTHER_SECRET, t)}
    \cup {Token(2, NumberToString(t), k.sig) : k \in Issued(t)}

\* what the create form and the retrieve page hand to apiCall (app lines
\* 772-783 and 499-505): bodies without a csrfToken field
FormOptions ==
    {CreateBody("envA", JNumber(m), JNumber(1), NoToken) : m \in {1, 2}}
    \cup {RetrieveBody(id, NoToken) : id \in ExternalIds}

\* the page's origin goes out with each of its fetches
FromOrigin(options, origin) == [options EXCEPT !.origin = origin]

\* requests of callers that follow the API reference
CreateRequests ==
    {CreateBody("envA", JNumber(m), JNumber(1), k) :
        m \in {1, 2}, k \in Issued(now) \cup {BadSignature(now)}}
RetrieveRequests ==
    {RetrieveBody(id, k) :
        id \in ExternalIds, k \in Issued(now) \cup {BadSignature(now)}}

\* options apiCall is called with: the forms', from a page of the listed
\* origin or of another one, and options whose body carries a token as the
\* API reference has it
ApiCallOptions ==
    {FromOrigin(o, origin) :
        o \in FormOptions, origin \in {APP_ORIGIN, FOREIGN_ORIGIN}}
    \cup {FromOrigin(r, APP_ORIGIN) : r \in CreateRequests \cup RetrieveRequests}

\* requests of any caller: each field in turn with every value of its kind
\* beside acceptable values of the others, with a token of the worker or a
\* wrongly signed one, every forged token with fields
\* in range, and bodies that are not JSON objects
AnyCreateRequests ==
    {CreateBody(f[1], f[2], f[3], k) :
        f \in {<<"envA", m, JNumber(1)>> :
                 m \in {JUndefined, JString, JNumber(0), JNumber(1),
                        JNumber(2), JNumber(MAX_VIEWS + 1)}}
              \cup {<<"envA", JNumber(1), h>> :
                      h \in {JUndefined, JNumber(0), JNumber(MAX_HOURS + 1)}}
              \cup {<<"", JNumber(1), JNumber(1)>>},
        k \in Issued(now) \cup {BadSignature(now)}}
    \cup {CreateBody("envA", JNumber(1), JNumber(1), k) :
            k \in ForgedTokens(now)}
    \cup {[CreateBody("envA", JNumber(1), JNumber(1), k) EXCEPT !.json = j] :
            j \in {"invalid", "null"}, k \in Issued(now)}
AnyRetrieveRequests ==
    {RetrieveBody(id, k) :
        id \in ExternalIds \cup StoreKeys \cup {NoId},
        k \in Issued(now) \cup ForgedTokens(now)}
    \cup {[RetrieveBody(id, k) EXCEPT !.json = j] :
            id \in ExternalIds, j \in {"invalid", "null"}, k \in Issued(now)}

(* --------------------------- specifications ---------------------------- *)
\* the worker under concurrent callers of its API; store operations may fail
Next ==
    \/ Tick
    \/ \E p \in Procs : Idle(p) /\ \E r \in CreateRequests : HandleCreateSecret(p, r)
    \/ \E p \in Procs : CreatePut(p)
    \/ \E p \in Procs : CreatePutFail(p)
    \/ \E p \in Procs : Idle(p) /\ \E r \in RetrieveRequests : HandleRetrieveSecret(p, r)
    \/ \E p \in Procs : RetrieveGet(p)
    \/ \E p \in Procs : RetrieveGetFail(p)
    \/ \E p \in Procs : RetrieveWrite(p)
    \/ \E p \in Procs : RetrieveWriteFail(p)
    \/ \E p \in Procs : Finish(p)

Spec == Init /\ [][Next]_vars

\* one request at a time, from any caller; every store operation succeeds
NextSeq ==
    \/ Tick
    \/ Idle(1) /\ \E r \in AnyCreateRequests : HandleCreateSecret(1, r)
    \/ CreatePut(1)
    \/ Idle(1) /\ \E r \in AnyRetrieveRequests : HandleRetrieveSecret(1, r)
    \/ RetrieveGet(1)
    \/ RetrieveWrite(1)
    \/ Finish(1)

SpecSeq == Init /\ [][NextSeq]_vars

\* retrieve requests that present an external id or, in its place, the key
\* the record is stored under
LookupRequests ==
    {RetrieveBody(id, k) : id \in ExternalIds \cup StoreKeys, k \in Issued(now)}

\* creates of one of two envelopes
LookupCreates ==
    {CreateBody(e, JNumber(m), JNumber(1), k) :
        e \in {"envA", "envB"}, m \in {1, 2},
        k \in Issued(now) \cup {BadSignature(now)}}

\* one request at a time: creates, and retrieves by external id or by store
\* key, every store operation succeeding
NextLookup ==
    \/ Tick
    \/ Idle(1) /\ \E r \in LookupCreates : HandleCreateSecret(1, r)
    \/ CreatePut(1)
    \/ Idle(1) /\ \E r \in LookupRequests : HandleRetrieveSecret(1, r)
    \/ RetrieveGet(1)
    \/ RetrieveWrite(1)
    \/ Finish(1)

SpecLookup == Init /\ [][NextLookup]_vars

\* the store already holds the record of an earlier create: envelope envB,
\* two views, written at time 0 with a time-to-live of one hour
BystanderEntry ==
    Entry(TRUE, SecretData("envB", JNumber(2), 0, 0),
          SECONDS_PER_HOUR * MS_PER_SECOND)
InitIsolation ==
    /\ now = 0
    /\ kv = [k \in KvKeys |->
               IF k = HashSecretId(BystanderId) THEN BystanderEntry ELSE Absent]
    /\ usedRandom = {}
    /\ pc = [p \in Procs |-> "idle"]
    /\ req = [p \in Procs |-> NoRequest]
    /\ loc = [p \in Procs |-> NoLocals]
    /\ resp = [p \in Procs |-> NoResponse]
    /\ kvOps = [p \in Procs |-> 0]
    /\ delivered = [r \in 1..MaxSecrets |-> 0]
    /\ born = [r \in 1..MaxSecrets |-> NoBirth]
    /\ cachedCSRFToken = NoToken
    /\ csrfTokenExpiry = 0
    /\ call = NoCall
    /\ trial = NoTrial
    /\ cipher = NoCipher
    /\ currentSecretData = NoCurrent

\* retrieves of the ids handed out and of the earlier record's id
IsolationRequests ==
    {RetrieveBody(id, k) :
        id \in ExternalIds \cup {BystanderId}, k \in Issued(now)}

\* one request at a time beside the earlier record, every store operation
\* succeeding
NextIsolation ==
    \/ Tick
    \/ Idle(1) /\ \E r \in CreateRequests : HandleCreateSecret(1, r)
    \/ CreatePut(1)
    \/ Idle(1) /\ \E r \in IsolationRequests : HandleRetrieveSecret(1, r)
    \/ RetrieveGet(1)
    \/ RetrieveWrite(1)
    \/ Finish(1)

SpecIsolation == InitIsolation /\ [][NextIsolation]_vars

\* one request at a time, from callers that follow the API reference; store
\* operations may fail
NextStoreFail ==
    \/ Tick
    \/ Idle(1) /\ \E r \in CreateRequests : HandleCreateSecret(1, r)
    \/ CreatePut(1)
    \/ CreatePutFail(1)
    \/ Idle(1) /\ \E r \in RetrieveRequests : HandleRetrieveSecret(1, r)
    \/ RetrieveGet(1)
    \/ RetrieveGetFail(1)
    \/ RetrieveWrite(1)
    \/ RetrieveWriteFail(1)
    \/ Finish(1)

SpecStoreFail == Init /\ [][NextStoreFail]_vars

\* the browser client and the worker, one request at a time
NextClient ==
    \/ Tick
    \/ Idle(1) /\ \E o \in ApiCallOptions : ApiCall(1, o)
    \/ ApiCallRetry(1)
    \/ ApiCallResend(1)
    \/ ApiCallReturn(1)
    \/ call.options.route = "create" /\ ApiCallDone
    \/ \E mode \in {"key-based", "password-based"}, type \in {"key", "password"} :
          RetrieveSecretResponse(mode, type)
    \/ \E opens \in BOOLEAN : DecryptWithPasswordPrompt(opens)
    \/ CreatePut(1)
    \/ RetrieveGet(1)
    \/ RetrieveWrite(1)

SpecClient == Init /\ [][NextClient]_vars

\* apiCall against a worker that holds no record: the forms' options from
\* both origins, and retrieve options whose body carries a token
RetryOptions ==
    {FromOrigin(o, origin) :
        o \in FormOptions, origin \in {APP_ORIGIN, FOREIGN_ORIGIN}}
    \cup {FromOrigin(r, APP_ORIGIN) : r \in RetrieveRequests}

NextRetry ==
    \/ Tick
    \/ Idle(1) /\ \E o \in RetryOptions : ApiCall(1, o)
    \/ ApiCallRetry(1)
    \/ ApiCallResend(1)
    \/ ApiCallReturn(1)
    \/ ApiCallDone
    \/ RetrieveGet(1)

\* the worker answers every request and every await of apiCall settles
SpecRetryLive ==
    /\ Init /\ [][NextRetry]_vars
    /\ WF_vars(RetrieveGet(1))
    /\ WF_vars(ApiCallRetry(1))
    /\ WF_vars(ApiCallResend(1))
    /\ WF_vars(ApiCallReturn(1))

(* ------------------- the token function on its own --------------------- *)
\* issue times: the first MaxIssueSeconds seconds, on the second and 1 ms on
IssueTimes == {sec * MS_PER_SECOND + ms : sec \in 0..MaxIssueSeconds, ms \in {0, 1}}

\* validation times relative to the issue time: around it, around the end
\* of the window (29m59s, 30m00s, 30m01s) and far after it
Offsets ==
    {0 - MS_PER_SECOND, 0 - 1, 0, 1, MS_PER_SECOND,
     CSRF_WINDOW_MS - MS_PER_SECOND, CSRF_WINDOW_MS - 1, CSRF_WINDOW_MS,
     CSRF_WINDOW_MS + 1, CSRF_WINDOW_MS + MS_PER_SECOND, 2 * CSRF_WINDOW_MS}

\* generateCSRFToken(env.CSRF_SECRET) at time t
TrialIssue(t) ==
    /\ trial.phase = "none"
    /\ trial' = Trial("issued", t, GenerateCSRFToken(CSRF_SECRET, t), 0, FALSE)
    /\ UNCHANGED <<now, kv, usedRandom, pc, req, loc, resp, kvOps,
                   delivered, born, cachedCSRFToken, csrfTokenExpiry,
                   call, cipher, currentSecretData>>

\* validateCSRFToken(token, env.CSRF_SECRET) at time t
TrialValidate(t) ==
    /\ trial.phase = "issued"
    /\ t >= 0
    /\ trial' = [trial EXCEPT !.phase = "validated", !.at = t,
                   !.result = ValidateCSRFToken(trial.token, CSRF_SECRET, t)]
    /\ UNCHANGED <<now, kv, usedRandom, pc, req, loc, resp, kvOps,
                   delivered, born, cachedCSRFToken, csrfTokenExpiry,
                   call, cipher, currentSecretData>>

TrialReset ==
    /\ trial.phase = "validated"
    /\ trial' = NoTrial
    /\ UNCHANGED <<now, kv, usedRandom, pc, req, loc, resp, kvOps,
                   delivered, born, cachedCSRFToken, csrfTokenExpiry,
                   call, cipher, currentSecretData>>

NextToken ==
    \/ \E t \in IssueTimes : TrialIssue(t)
    \/ \E o \in Offsets : TrialValidate(trial.issuedAt + o)
    \/ TrialReset

SpecToken == Init /\ [][NextToken]_vars

(* ------------------- share links (app lines 378-448) -------------------- *)
\* An item of a URL: one of the characters '#', '/' and 's', the address of
\* the page (origin and path, without '#'), a secret id (URL-safe base64
\* text, so without '/' and '#'), or a character of a base64 text
Mark(c) == [item |-> "mark", c |-> c]
BaseUrl == [item |-> "base"]
IdItem(secretId) == [item |-> "id", id |-> secretId]
KeyItem(ch) == [item |-> "char", ch |-> ch]

\* a value that may be a string
NullText == [k |-> "null", chars |-> <<>>]
UndefinedText == [k |-> "undefined", chars |-> <<>>]
StringText(chars) == [k |-> "string", chars |-> chars]
\* null, undefined and '' are falsy
Truthy(text) == text.k = "string" /\ text.chars # <<>>

SecretIdText(secretId) == StringText(<<IdItem(secretId)>>)
KeyText(base64) == StringText([j \in 1..Len(base64) |-> KeyItem(base64[j])])

\* is the item the character '/': the mark, or the base64 character of
\* sextet 63 in the standard alphabet
IsSlash(x) ==
    \/ x = Mark("/")
    \/ /\ x.item = "char"
       /\ ~x.ch.pad
       /\ ~x.ch.urlSafe
       /\ IsLiteralSextet(x.ch.six)
       /\ BitsValue(x.ch.six) = 63

\* the link that carries the key although the secret is password-protected
GenerateSecretUrlWithKey(secretId, encryptionKey, isPasswordBased) ==
    <<BaseUrl, Mark("#"), Mark("s"), Mark("/")>> \o secretId.chars
    \o (IF Truthy(encryptionKey)
        THEN <<Mark("/")>> \o encryptionKey.chars ELSE <<>>)

\* app lines 438-448
GenerateSecretUrl(secretId, encryptionKey, isPasswordBased) ==
    IF isPasswordBased \/ ~Truthy(encryptionKey)
    THEN <<BaseUrl, Mark("#"), Mark("s"), Mark("/")>> \o secretId.chars
    ELSE <<BaseUrl, Mark("#"), Mark("s"), Mark("/")>> \o secretId.chars
         \o <<Mark("/")>> \o encryptionKey.chars

\* window.location.hash: the URL from its first '#', '' without one
LocationHash(url) ==
    IF \E i \in 1..Len(url) : url[i] = Mark("#")
    THEN LET i == CHOOSE i \in 1..Len(url) :
                    /\ url[i] = Mark("#")
                    /\ \A j \in 1..(i - 1) : url[j] # Mark("#")
         IN SubSeq(url, i, Len(url))
    ELSE <<>>

\* text.split('/')
RECURSIVE Split(_)
Split(text) ==
    IF \E i \in 1..Len(text) : IsSlash(text[i])
    THEN LET i == CHOOSE i \in 1..Len(text) :
                    /\ IsSlash(text[i])
                    /\ \A j \in 1..(i - 1) : ~IsSlash(text[j])
         IN <<SubSeq(text, 1, i - 1)>> \o Split(SubSeq(text, i + 1, Len(text)))
    ELSE <<text>>

Navigation(view, secretId, encryptionKey) ==
    [view |-> view, secretId |-> secretId, encryptionKey |-> encryptionKey]

\* app lines 378-393: what handleNavigation shows and hands to retrieveSecret
HandleNavigation(locationHash) ==
    LET hash == SubSeq(locationHash, 2, Len(locationHash))
    IN IF Len(hash) >= 2 /\ hash[1] = Mark("s") /\ IsSlash(hash[2])
       THEN LET parts == Split(SubSeq(hash, 3, Len(hash)))
            IN Navigation("retrieve-view", StringText(parts[1]),
                          IF Len(parts) >= 2 THEN StringText(parts[2])
                          ELSE UndefinedText)
       ELSE Navigation("create-view", UndefinedText, UndefinedText)

\* app lines 403-415; a key in a link has no white space, so trim() leaves it
DetermineEncryptionMode(secretId, encryptionKey) ==
    [mode |-> IF Truthy(encryptionKey) THEN "key-based" ELSE "password-based",
     hasKey |-> Truthy(encryptionKey),
     secretId |-> secretId,
     encryptionKey |-> encryptionKey]
NoMode == DetermineEncryptionMode(UndefinedText, UndefinedText)

\* is the item matched by [A-Za-z0-9+/]; '-' and '_' are the characters
\* that the URL-safe alphabet writes in place of '+' and '/'
InStandardAlphabet(x) == x.item = "char" /\ ~x.ch.pad /\ ~x.ch.urlSafe
IsPadding(x) == x.item = "char" /\ x.ch.pad
MIN_KEY_TEXT == 32

\* app lines 422-429: /^[A-Za-z0-9+/]+=*$/ and at least 32 characters; for
\* texts of literal bytes
IsValidEncryptionKey(key) ==
    /\ Truthy(key)
    /\ Len(key.chars) >= MIN_KEY_TEXT
    /\ \E n \in 1..Len(key.chars) :
          /\ \A j \in 1..n : InStandardAlphabet(key.chars[j])
          /\ \A j \in (n + 1)..Len(key.chars) : IsPadding(key.chars[j])

\* app lines 475-487: the error that retrieveSecret throws before its call
\* of the API, '' when it goes on to the call
RetrieveSecretChecks(secretId, encryptionKey) ==
    IF ~Truthy(secretId) THEN "No secret ID provided"
    ELSE IF /\ DetermineEncryptionMode(secretId, encryptionKey).hasKey
            /\ ~IsValidEncryptionKey(encryptionKey)
         THEN "The encryption key in the URL appears to be invalid or corrupted."
    ELSE ""

\* keys that generateKey may draw, every byte the same: their base64 texts
\* have no, one or both of the characters '-' and '_'
LinkKeyBytes == {0, 1, 97, 105, 250, 251, 254, 255}
LinkKeys ==
    {KeyText(ExportKeyToBase64(
        CryptoKey(LitBytes([j \in 1..(KEY_LENGTH \div BITS_PER_BYTE) |-> v]),
                  TRUE)).value) : v \in LinkKeyBytes}
LinkIds == {SecretIdText(id) : id \in ExternalIds \cup {BystanderId}}

\* one link: made by createSecret, opened in a browser, checked by
\* retrieveSecret
Link(phase, secretId, encryptionKey, isPasswordBased, url, parsed, modeInfo, error) ==
    [phase |-> phase, secretId |-> secretId, encryptionKey |-> encryptionKey,
     isPasswordBased |-> isPasswordBased, url |-> url, parsed |-> parsed,
     modeInfo |-> modeInfo, error |-> error]

\* app line 794
LinkGenerate(secretId, encryptionKey, isPasswordBased) ==
    /\ trial.phase = "none"
    /\ trial' = Link("generated", secretId, encryptionKey, isPasswordBased,
                     GenerateSecretUrl(secretId, encryptionKey, isPasswordBased),
                     Navigation("none", UndefinedText, UndefinedText),
                     NoMode, "")
    /\ UNCHANGED <<now, kv, usedRandom, pc, req, loc, resp, kvOps,
                   delivered, born, cachedCSRFToken, csrfTokenExpiry,
                   call, cipher, currentSecretData>>

\* app lines 841-845: the page is opened at the link
LinkNavigate ==
    /\ trial.phase = "generated"
    /\ trial' = [trial EXCEPT !.phase = "navigated",
                              !.parsed = HandleNavigation(LocationHash(trial.url))]
    /\ UNCHANGED <<now, kv, usedRandom, pc, req, loc, resp, kvOps,
                   delivered, born, cachedCSRFToken, csrfTokenExpiry,
                   call, cipher, currentSecretData>>

\* app lines 475-487, with WebCrypto available
LinkRetrieve ==
    /\ trial.phase = "navigated"
    /\ trial.parsed.view = "retrieve-view"
    /\ trial' = [trial EXCEPT
                   !.phase = "validated",
                   !.modeInfo = DetermineEncryptionMode(trial.parsed.secretId,
                                                        trial.parsed.encryptionKey),
                   !.error = RetrieveSecretChecks(trial.parsed.secretId,
                                                  trial.parsed.encryptionKey)]
    /\ UNCHANGED <<now, kv, usedRandom, pc, req, loc, resp, kvOps,
                   delivered, born, cachedCSRFToken, csrfTokenExpiry,
                   call, cipher, currentSecretData>>

NextLink ==
    \/ \E secretId \in LinkIds, encryptionKey \in LinkKeys \cup {NullText},
          isPasswordBased \in BOOLEAN :
          LinkGenerate(secretId, encryptionKey, isPasswordBased)
    \/ LinkNavigate
    \/ LinkRetrieve
    \/ TrialReset

SpecLink == Init /\ [][NextLink]_vars

(* ------------------- generatePassword (crypto.js:265-292) --------------- *)
\* crypto.js:275-278: the characters of each class, whole and without the
\* ones that look alike
UPPERCASE ==
    <<"A", "B", "C", "D", "E", "F", "G", "H", "I", "J", "K", "L", "M", "N",
      "O", "P", "Q", "R", "S", "T", "U", "V", "W", "X", "Y", "Z">>
UPPERCASE_DISTINCT ==
    <<"A", "B", "C", "D", "E", "F", "G", "H", "J", "K", "M", "N", "P", "Q",
      "R", "S", "T", "U", "V", "W", "X", "Y", "Z">>
LOWERCASE ==
    <<"a", "b", "c", "d", "e", "f", "g", "h", "i", "j", "k", "l", "m", "n",
      "o", "p", "q", "r", "s", "t", "u", "v", "w", "x", "y", "z">>
LOWERCASE_DISTINCT ==
    <<"a", "b", "c", "d", "e", "f", "g", "h", "i", "j", "k", "m", "n", "p",
      "q", "r", "s", "t", "u", "v", "w", "x", "y", "z">>
NUMBERS ==
    <<"0", "1", "2", "3", "4", "5", "6", "7", "8", "9">>
NUMBERS_DISTINCT ==
    <<"2", "3", "4", "5", "6", "7", "8", "9">>
SYMBOLS ==
    <<"!", "@", "#", "$", "%", "^", "&", "*", "(", ")", "_", "+", "-", "=",
      "[", "]", "{", "}", "|", ";", ":", ",", ".", "<", ">", "?">>

PasswordOptions(includeUppercase, includeLowercase, includeNumbers, includeSymbols, excludeSimilar) ==
    [includeUppercase |-> includeUppercase,
     includeLowercase |-> includeLowercase,
     includeNumbers |-> includeNumbers,
     includeSymbols |-> includeSymbols,
     excludeSimilar |-> excludeSimilar]

\* the character set that keeps the look-alikes of the letters
CharsetKeepSimilar(options) ==
    (IF options.includeUppercase THEN UPPERCASE ELSE <<>>)
    \o (IF options.includeLowercase THEN LOWERCASE ELSE <<>>)
    \o (IF options.includeNumbers
        THEN (IF options.excludeSimilar THEN NUMBERS_DISTINCT ELSE NUMBERS)
        ELSE <<>>)
    \o (IF options.includeSymbols THEN SYMBOLS ELSE <<>>)

\* crypto.js:274-278
Charset(options) ==
    (IF options.includeUppercase
     THEN (IF options.excludeSimilar THEN UPPERCASE_DISTINCT ELSE UPPERCASE)
     ELSE <<>>)
    \o (IF options.includeLowercase
        THEN (IF options.excludeSimilar THEN LOWERCASE_DISTINCT ELSE LOWERCASE)
        ELSE <<>>)
    \o (IF options.includeNumbers
        THEN (IF options.excludeSimilar THEN NUMBERS_DISTINCT ELSE NUMBERS)
        ELSE <<>>)
    \o (IF options.includeSymbols THEN SYMBOLS ELSE <<>>)

\* crypto.js:265-292, randomBytes being what crypto.getRandomValues drew:
\* character i is charset[randomBytes[i] % charset.length]
GeneratePassword(length, options, randomBytes) ==
    LET charset == Charset(options)
    IN IF charset = <<>>
       THEN Thrown("At least one character type must be included")
       ELSE Ok([i \in 1..length |->
                  charset[(randomBytes[i] % Len(charset)) + 1]])

\* what getRandomValues may draw for length bytes: every value of a byte in
\* each place, beside zeros in the others
BYTE_VALUES == 256
RandomBytesOf(length) ==
    {[j \in 1..length |-> IF j = i THEN b ELSE 0] :
        i \in 1..length, b \in 0..(BYTE_VALUES - 1)}
    \cup {[j \in 1..length |-> 0]}
AllPasswordOptions ==
    {PasswordOptions(u, l, n, s, x) :
        u \in BOOLEAN, l \in BOOLEAN, n \in BOOLEAN, s \in BOOLEAN,
        x \in BOOLEAN}

Generated(phase, length, options, randomBytes, result) ==
    [phase |-> phase, length |-> length, options |-> options,
     randomBytes |-> randomBytes, result |-> result]

\* one call of generatePassword
PasswordGenerate(length, options, randomBytes) ==
    /\ trial.phase = "none"
    /\ trial' = Generated("validated", length, options, randomBytes,
                          GeneratePassword(length, options, randomBytes))
    /\ UNCHANGED <<now, kv, usedRandom, pc, req, loc, resp, kvOps,
                   delivered, born, cachedCSRFToken, csrfTokenExpiry,
                   call, cipher, currentSecretData>>

NextPassword ==
    \/ /\ trial.phase = "none"
       /\ \E length \in 0..MaxPasswordLen, options \in AllPasswordOptions :
             \E randomBytes \in RandomBytesOf(length) :
                 PasswordGenerate(length, options, randomBytes)
    \/ TrialReset

SpecPassword == Init /\ [][NextPassword]_vars

(* ------------------- base64url of any bytes ---------------------------- *)
\* byte values tried: literal ones, of which 251 and 255 give the sextets 62
\* and 63, and bytes of a random draw
BufferBytes ==
    {Lit(v) : v \in {0, 97, 251, 255}} \cup {Sym([k |-> "buffer", d |-> 1], 1)}
Buffers == UNION {[1..n -> BufferBytes] : n \in 0..MaxBufferLen}

Encoded(phase, bytes, text, workerText, decoded) ==
    [phase |-> phase, bytes |-> bytes, text |-> text,
     workerText |-> workerText, decoded |-> decoded]

\* the bytes through arrayBufferToBase64 and back through
\* base64ToArrayBuffer, and through the worker's base64urlEncode
Base64Trial(bytes) ==
    /\ trial.phase = "none"
    /\ trial' = Encoded("validated", bytes, ArrayBufferToBase64(bytes),
                        Base64urlEncode(bytes),
                        Base64ToArrayBuffer(ArrayBufferToBase64(bytes)))
    /\ UNCHANGED <<now, kv, usedRandom, pc, req, loc, resp, kvOps,
                   delivered, born, cachedCSRFToken, csrfTokenExpiry,
                   call, cipher, currentSecretData>>

NextBase64 ==
    \/ trial.phase = "none" /\ \E bytes \in Buffers : Base64Trial(bytes)
    \/ TrialReset

SpecBase64 == Init /\ [][NextBase64]_vars

(* ------------------- token texts of any form --------------------------- *)
\* token texts put to validateCSRFToken, made around a token of time t:
\* those a caller can make without the secret, the worker's own token, its
\* signature under a timestamp altered by 1 ms, and a timestamp that is not
\* a number with its HMAC under the worker's secret
TokenTexts(t) ==
    ForgedTokens(t)
    \cup {GenerateCSRFToken(CSRF_SECRET, t),
          Token(2, NumberToString(t + 1), HmacHex(CSRF_SECRET, NumberToString(t))),
          Token(2, <<"x">>, HmacHex(CSRF_SECRET, <<"x">>))}

\* validateCSRFToken(token, env.CSRF_SECRET) at time t
TrialPresent(token, t) ==
    /\ trial.phase = "none"
    /\ t >= 0
    /\ trial' = Trial("validated", 0, token, t,
                      ValidateCSRFToken(token, CSRF_SECRET, t))
    /\ UNCHANGED <<now, kv, usedRandom, pc, req, loc, resp, kvOps,
                   delivered, born, cachedCSRFToken, csrfTokenExpiry,
                   call, cipher, currentSecretData>>

NextForms ==
    \/ \E t \in IssueTimes, o \in Offsets :
          \E token \in TokenTexts(t) : TrialPresent(token, t + o)
    \/ TrialReset

SpecForms == Init /\ [][NextForms]_vars

(* ------------------- the token cache against the window ---------------- *)
MINUTE_MS == 60 * MS_PER_SECOND

\* delays tried, in ms: of the response that brings a token, of the request
\* that carries it to the worker's check, and between two calls
ReceiptDelays == {0, 2 * MINUTE_MS}
RequestDelays == {0, 3 * MINUTE_MS - 1, 5 * MINUTE_MS}
CallPauses == {0, CSRF_TOKEN_CACHE_DURATION - 1, CSRF_TOKEN_CACHE_DURATION}

\* a token in the client's hands: where its use stands, the token, when the
\* client received it, when getCSRFToken returned it, when the worker
\* checked it and what the check gave
Handed(phase, token, receivedAt, returnedAt, at, result) ==
    [phase |-> phase, token |-> token, receivedAt |-> receivedAt,
     returnedAt |-> returnedAt, at |-> at, result |-> result]

\* getCSRFToken (app lines 34-46): the cached token at once, or a fetch of
\* /api/csrf-token, which the worker answers with a token of its time
GetCSRFTokenCall ==
    /\ trial.phase = "none"
    /\ trial' = IF CacheHit
                THEN Handed("returned", cachedCSRFToken,
                            csrfTokenExpiry - CSRF_TOKEN_CACHE_DURATION,
                            now, 0, FALSE)
                ELSE Handed("fetching", HandleGetCSRFToken(now), 0, 0, 0, FALSE)
    /\ UNCHANGED <<now, kv, usedRandom, pc, req, loc, resp, kvOps,
                   delivered, born, cachedCSRFToken, csrfTokenExpiry,
                   call, cipher, currentSecretData>>

\* the response arrives after delay d and the token is cached (app lines
\* 53-63)
GetCSRFTokenReceive(d) ==
    /\ trial.phase = "fetching"
    /\ now + d <= MaxHalfHours * HALF_HOUR_MS
    /\ now' = now + d
    /\ cachedCSRFToken' = trial.token
    /\ csrfTokenExpiry' = now' + CSRF_TOKEN_CACHE_DURATION
    /\ trial' = [trial EXCEPT !.phase = "returned", !.receivedAt = now',
                              !.returnedAt = now']
    /\ UNCHANGED <<kv, usedRandom, pc, req, loc, resp, kvOps,
                   delivered, born, call, cipher, currentSecretData>>

\* the request that carries the token reaches validateCSRFToken after delay d
HandedValidate(d) ==
    /\ trial.phase = "returned"
    /\ now + d <= MaxHalfHours * HALF_HOUR_MS
    /\ now' = now + d
    /\ trial' = [trial EXCEPT !.phase = "validated", !.at = now',
                   !.result = ValidateCSRFToken(trial.token, CSRF_SECRET, now')]
    /\ UNCHANGED <<kv, usedRandom, pc, req, loc, resp, kvOps,
                   delivered, born, cachedCSRFToken, csrfTokenExpiry,
                   call, cipher, currentSecretData>>

\* the page stays open for a time w until its next call
HandedPause(w) ==
    /\ trial.phase = "validated"
    /\ now + w <= MaxHalfHours * HALF_HOUR_MS
    /\ now' = now + w
    /\ trial' = NoTrial
    /\ UNCHANGED <<kv, usedRandom, pc, req, loc, resp, kvOps,
                   delivered, born, cachedCSRFToken, csrfTokenExpiry,
                   call, cipher, currentSecretData>>

NextCache ==
    \/ GetCSRFTokenCall
    \/ \E d \in ReceiptDelays : GetCSRFTokenReceive(d)
    \/ \E d \in RequestDelays : HandedValidate(d)
    \/ \E w \in CallPauses : HandedPause(w)

SpecCache == Init /\ [][NextCache]_vars

(* ------------------- encryption and decryption on their own ------------ *)
\* code units of the plaintexts tried: 'a', the euro sign, the byte order
\* mark, a high and a low surrogate
PlainUnits == {97, 8364, BOM, HIGH_SURROGATE_MIN, LOW_SURROGATE_MIN}
TextsUpTo(units, n) == UNION {[1..k -> units] : k \in 0..n}
Plaintexts == TextsUpTo(PlainUnits, MaxPlainLen)

\* passwords tried: the password form trims and refuses the empty one
Passwords == {<<97>>, <<98>>, <<97, 98>>, <<HIGH_SURROGATE_MIN>>, <<LOW_SURROGATE_MIN>>}

\* keys tried: generateKey's draws, and two values it may draw whose base64
\* text has the characters that the URL-safe alphabet writes differently
KeysTried ==
    {GenerateKey(d) : d \in 1..MaxDraws}
    \cup {CryptoKey(LitBytes([j \in 1..(KEY_LENGTH \div BITS_PER_BYTE) |-> v]), TRUE) : v \in {251, 255}}
NoKey == CryptoKey(<<>>, FALSE)

\* how a decryption is attempted
Attempt(how, key, password, at) ==
    [how |-> how, key |-> key, password |-> password, at |-> at]
NoAttempt == Attempt("none", NoKey, <<>>, 0)

\* a byte that differs from b
Altered(b) == Sym([k |-> "altered", of |-> b], 0)

\* the base64 text of the bytes of text with byte number i altered
AlterByte(text, i) ==
    LET bytes == Base64ToArrayBuffer(text).value
    IN ArrayBufferToBase64([bytes EXCEPT ![i] = Altered(bytes[i])])

\* the base64 text of the first n bytes of text
Truncate(text, n) ==
    ArrayBufferToBase64(SliceTo(Base64ToArrayBuffer(text).value, n))

ByteLength(text) == Len(Base64ToArrayBuffer(text).value)

\* a text that atob refuses
Undecodable(text) == <<PadChar>> \o text

\* encryptSecret(secret) with the key it generated
CipherEncryptSecret(secret, key) ==
    /\ cipher.phase = "none"
    /\ cipher' = Cipher("sealed", "key", secret, key, <<>>,
                        EncryptSecret(secret, key, 1), NoAttempt, Ok(<<>>))
    /\ UNCHANGED <<now, kv, usedRandom, pc, req, loc, resp, kvOps, delivered,
                   born, cachedCSRFToken, csrfTokenExpiry, call, trial,
                   currentSecretData>>

\* encryptSecretWithPassword(secret, password)
CipherEncryptWithPassword(secret, password) ==
    /\ cipher.phase = "none"
    /\ cipher' = Cipher("sealed", "password", secret, NoKey, password,
                        EncryptWithPassword(secret, password, 1, 1),
                        NoAttempt, Ok(<<>>))
    /\ UNCHANGED <<now, kv, usedRandom, pc, req, loc, resp, kvOps, delivered,
                   born, cachedCSRFToken, csrfTokenExpiry, call, trial,
                   currentSecretData>>

\* what the attempt gives for the sealed secret
Open(c, a) ==
    IF a.how = "key" THEN Decrypt(c.sealed.encryptedData, a.key)
    ELSE IF a.how = "url" THEN DecryptSecret(c.sealed.encryptedData, c.sealed.key)
    ELSE IF a.how = "altered"
         THEN Decrypt(AlterByte(c.sealed.encryptedData, a.at), c.key)
    ELSE IF a.how = "truncated"
         THEN Decrypt(Truncate(c.sealed.encryptedData, a.at), c.key)
    ELSE IF a.how = "undecodable"
         THEN Decrypt(Undecodable(c.sealed.encryptedData), c.key)
    ELSE IF a.how = "password"
         THEN DecryptWithPassword(c.sealed.encryptedData, a.password, c.sealed.salt)
    ELSE IF a.how = "salt"
         THEN DecryptWithPassword(c.sealed.encryptedData, c.password,
                                  AlterByte(c.sealed.salt, a.at))
    ELSE DecryptWithPassword(c.sealed.encryptedData, c.password,
                             Undecodable(c.sealed.salt))

\* the attempts made on a secret sealed with a key: any key tried, the key
\* of the URL, and with the right key the data altered in one byte (the
\* first or last of the iv, the first after the iv, the last of the tag),
\* cut short (to nothing, to the iv, by one byte) or not decodable
KeyAttempts(c) ==
    {Attempt("key", k, <<>>, 0) : k \in KeysTried}
    \cup {Attempt("url", NoKey, <<>>, 0), Attempt("undecodable", NoKey, <<>>, 0)}
    \cup {Attempt("altered", NoKey, <<>>, i) :
            i \in {1, IV_LENGTH, IV_LENGTH + 1,
                   ByteLength(c.sealed.encryptedData)}}
    \cup {Attempt("truncated", NoKey, <<>>, n) :
            n \in {0, IV_LENGTH, ByteLength(c.sealed.encryptedData) - 1}}

\* the attempts made on a secret sealed with a password
PasswordAttempts(c) ==
    {Attempt("password", NoKey, pw, 0) : pw \in Passwords}
    \cup {Attempt("salt", NoKey, <<>>, 1), Attempt("saltUndecodable", NoKey, <<>>, 0)}

\* decrypt, decryptSecret or decryptSecretWithPassword on the sealed secret
CipherDecrypt(a) ==
    /\ cipher.phase = "sealed"
    /\ cipher' = [cipher EXCEPT !.phase = "opened", !.attempt = a,
                                !.result = Open(cipher, a)]
    /\ UNCHANGED <<now, kv, usedRandom, pc, req, loc, resp, kvOps, delivered,
                   born, cachedCSRFToken, csrfTokenExpiry, call, trial,
                   currentSecretData>>

CipherReset ==
    /\ cipher.phase = "opened"
    /\ cipher' = NoCipher
    /\ UNCHANGED <<now, kv, usedRandom, pc, req, loc, resp, kvOps, delivered,
                   born, cachedCSRFToken, csrfTokenExpiry, call, trial,
                   currentSecretData>>

NextCrypto ==
    \/ \E secret \in Plaintexts, key \in KeysTried : CipherEncryptSecret(secret, key)
    \/ \E secret \in Plaintexts, pw \in Passwords : CipherEncryptWithPassword(secret, pw)
    \/ cipher.mode = "key" /\ \E a \in KeyAttempts(cipher) : CipherDecrypt(a)
    \/ cipher.mode = "password" /\ \E a \in PasswordAttempts(cipher) : CipherDecrypt(a)
    \/ CipherReset

SpecCrypto == Init /\ [][NextCrypto]_vars

\* the worker under concurrent callers; every store operation succeeds
NextRace ==
    \/ Tick
    \/ \E p \in Procs : Idle(p) /\ \E r \in CreateRequests : HandleCreateSecret(p, r)
    \/ \E p \in Procs : CreatePut(p)
    \/ \E p \in Procs : Idle(p) /\ \E r \in RetrieveRequests : HandleRetrieveSecret(p, r)
    \/ \E p \in Procs : RetrieveGet(p)
    \/ \E p \in Procs : RetrieveWrite(p)
    \/ \E p \in Procs : Finish(p)

SpecRace == Init /\ [][NextRace]_vars

(* ------------------------------- claims -------------------------------- *)
\* the record of a store key or external id, by its random draw
Created(r) == born[r] # NoBirth
Limit(r) == born[r].maxViews.n
HasNumericLimit(r) == Created(r) /\ born[r].maxViews.k = "number"
\* the time-to-live the create asked of the store, in ms
TtlMs(r) == born[r].hours * SECONDS_PER_HOUR * MS_PER_SECOND
\* the request in slot p went past the token check to the store
ReachedStore(p) == kvOps[p] > 0
\* slot p holds a finished retrieve / create
RetrieveDone(p) ==
    pc[p] = "done" /\ req[p].route = "retrieve" /\ resp[p].kind = "response"
CreateDone(p) ==
    pc[p] = "done" /\ req[p].route = "create" /\ resp[p].kind = "response"
\* slot p holds a retrieve that is between its store read and its response
InFlightOn(p, r) ==
    /\ pc[p] \in {"r_del410", "r_delete", "r_put"}
    /\ loc[p].hashedSecretId.r = r
NeverRetrieved(r) ==
    delivered[r] = 0 /\ \A p \in Procs : ~InFlightOn(p, r)
InRange(j, lo, hi) == j.k = "number" /\ lo <= j.n /\ j.n <= hi

\* C1: concurrent retrieve calls against one record never produce more than
\* maxViews responses that carry the envelope (checked with every store
\* operation succeeding, so only the interleaving decides)
ConcurrentViewLimit ==
    \A r \in 1..MaxSecrets : HasNumericLimit(r) => delivered[r] <= Limit(r)

TtlExpiry ==
    [][\A p \in Procs :
         /\ (pc[p] = "c_put" /\ pc'[p] = "done" /\ resp'[p].status = 200)
            => kv'[loc[p].hashedSecretId] =
                 Entry(TRUE, loc[p].secretData,
                       now + req[p].expirationHours.n * SECONDS_PER_HOUR
                                                      * MS_PER_SECOND)
         /\ (/\ pc[p] = "r_get" /\ pc'[p] # "r_get"
             /\ loc[p].hashedSecretId \in StoreKeys
             /\ Created(loc[p].hashedSecretId.r)
             /\ NeverRetrieved(loc[p].hashedSecretId.r)
             /\ now >= born[loc[p].hashedSecretId.r].putAt
                         + TtlMs(loc[p].hashedSecretId.r)
             /\ resp'[p].status # 500)
            => (pc'[p] = "done" /\ resp'[p].status = 404)]_vars
TtlExpiryWitness ==
    \E p \in Procs :
        /\ RetrieveDone(p)
        /\ resp[p].status = 404
        /\ loc[p].hashedSecretId \in StoreKeys
        /\ Created(loc[p].hashedSecretId.r)
        /\ delivered[loc[p].hashedSecretId.r] = 0
        /\ kv[loc[p].hashedSecretId].present
        /\ loc[p].checkedAt >= born[loc[p].hashedSecretId.r].putAt
                                 + TtlMs(loc[p].hashedSecretId.r)

\* C4: every stored record carries an expiration, no later than ttlHours
\* after its creation
BoundedLifetime ==
    \A k \in StoreKeys :
        kv[k].present =>
            /\ kv[k].expiration # NoExpiration
            /\ kv[k].expiration <= born[k.r].putAt + TtlMs(k.r)

\* C5: the body of every request sent through apiCall holds the token that
\* getCSRFToken gave, and the worker's required-field check lets it pass
TokenDelivery ==
    \A p \in Procs :
        (pc[p] # "idle" /\ req[p].via = "apiCall") =>
            /\ req[p].csrfToken = req[p].header
            /\ req[p].csrfToken # NoToken
            /\ resp[p].error \notin {"Missing required fields",
                                     "Missing secretId or csrfToken"}

\* C6: a request whose token does not validate at the time of the check is
\* answered at once with an error and has performed no store operation; only
\* requests whose token validated stand at a store operation
TokenGate ==
    \A p \in Procs :
        (/\ pc[p] # "idle"
         /\ req[p].json = "object"
         /\ ~ValidateCSRFToken(req[p].csrfToken, CSRF_SECRET, loc[p].checkedAt))
        => /\ pc[p] = "done"
           /\ kvOps[p] = 0
           /\ resp[p].kind = "response"
           /\ resp[p].status \in {400, 403}
TokenGateWitness ==
    \E p \in Procs :
        /\ pc[p] = "done"
        /\ req[p].route = "retrieve"
        /\ req[p].secretId \in ExternalIds
        /\ req[p].csrfToken \in Issued(now)
        /\ resp[p].status = 403
        /\ kv[HashSecretId(req[p].secretId)].present

\* C7: a token issued at t validates at every time in [t, t + 29m59s], fails
\* at every time from t + 30m01s on, and fails at every time before t
TokenWindow ==
    trial.phase = "validated" =>
        LET age == trial.at - trial.issuedAt
        IN /\ (0 <= age /\ age <= CSRF_WINDOW_MS - MS_PER_SECOND) => trial.result
           /\ age >= CSRF_WINDOW_MS + MS_PER_SECOND => ~trial.result
           /\ age < 0 => ~trial.result
TokenWindowWitness ==
    /\ trial.phase = "validated"
    /\ trial.at - trial.issuedAt = CSRF_WINDOW_MS - MS_PER_SECOND
    /\ trial.issuedAt > 0
    /\ trial.result

\* C8: for a record created with maxViews = 1, the retrieve that delivers
\* the envelope has isLastView = true, and a retrieve after it answers 410
ExhaustedAfterLastView ==
    \A p \in Procs :
        (/\ RetrieveDone(p)
         /\ ReachedStore(p)
         /\ loc[p].hashedSecretId \in StoreKeys
         /\ Created(loc[p].hashedSecretId.r)
         /\ born[loc[p].hashedSecretId.r].maxViews = JNumber(1)
         /\ delivered[loc[p].hashedSecretId.r] = 1)
        => IF resp[p].status = 200 THEN resp[p].isLastView
           ELSE resp[p].status = 410

\* C9: a create whose maxViews is not within 1..100 or whose expirationHours
\* is not within 1..8760 is answered 400 without a store operation, and a
\* create that wrote has stored one record with viewCount 0, the envelope
\* and maxViews submitted, and createdAt the time of the call
CreateValidation ==
    \A p \in Procs :
        /\ (/\ pc[p] # "idle"
            /\ req[p].route = "create"
            /\ req[p].json = "object"
            /\ \/ ~InRange(req[p].maxViews, MIN_VIEWS, MAX_VIEWS)
               \/ ~InRange(req[p].expirationHours, MIN_HOURS, MAX_HOURS))
           => (/\ pc[p] = "done"
               /\ resp[p].kind = "response"
               /\ resp[p].status = 400
               /\ kvOps[p] = 0)
        /\ (CreateDone(p) /\ resp[p].status = 200)
           => kv[loc[p].hashedSecretId].value =
                SecretData(req[p].encryptedData, req[p].maxViews, 0,
                           loc[p].checkedAt)

\* C10 as stated: the viewCount of a 200 response of retrieve is the
\* viewCount that the handler read from the store
PreIncrementCount ==
    \A p \in Procs :
        (RetrieveDone(p) /\ resp[p].status = 200) =>
            /\ resp[p].encryptedData = loc[p].storedData.encryptedData
            /\ resp[p].viewCount = loc[p].storedData.viewCount

\* C10 as amended: a 200 response of retrieve carries the envelope that the
\* handler read from the store and the viewCount it read plus one, and its
\* isLastView says whether that incremented count reaches maxViews
PostIncrementCount ==
    \A p \in Procs :
        (RetrieveDone(p) /\ resp[p].status = 200) =>
            /\ resp[p].encryptedData = loc[p].storedData.encryptedData
            /\ resp[p].viewCount = loc[p].storedData.viewCount + 1
            /\ resp[p].isLastView =
                 JsGe(Num(loc[p].storedData.viewCount + 1),
                      ToNumber(loc[p].storedData.maxViews))
PostIncrementCountWitness ==
    \E p \in Procs :
        /\ RetrieveDone(p)
        /\ resp[p].status = 200
        /\ loc[p].storedData.viewCount = 1
        /\ resp[p].viewCount = 2
        /\ resp[p].isLastView

\* C11 (under SpecRetryLive): one apiCall fetches the endpoint at most twice; it fetches a second
\* time only after a 403 on the first, with the cache cleared and a token
\* fetched anew; a 403 on the second fetch is returned; every apiCall returns
BoundedRetry ==
    /\ [](/\ call.sends <= 2
          /\ call.sends = 2 => (call.retry /\ call.firstStatus = 403)
          /\ call.phase = "retry" =>
                (call.sends = 1 /\ cachedCSRFToken = NoToken)
          /\ call.phase = "returned" =>
                (call.response.status = 403 => call.sends = 2))
    /\ [][(call.phase = "retry" /\ call'.phase = "sent") =>
             /\ call'.sends = 2
             /\ call'.sentToken = HandleGetCSRFToken(now)
             /\ cachedCSRFToken' = call'.sentToken]_vars
    /\ (call.phase \in {"sent", "retry"}) ~> (call.phase = "returned")
BoundedRetryWitness ==
    /\ call.phase = "returned"
    /\ call.sends = 2
    /\ call.firstStatus = 403
    /\ call.response.status = 403

\* C12: a response with status 403 comes from a handler that has performed
\* no store operation, so the fetch that apiCall repeats had touched nothing
NoRetryAfterMutation ==
    /\ \A p \in Procs :
         (pc[p] = "done" /\ Fetched(resp[p]).status = 403) => kvOps[p] = 0
    /\ call.sends >= 2 => call.firstOps = 0
NoRetryAfterMutationWitness ==
    /\ call.phase = "sent"
    /\ call.sends = 2
    /\ call.options.route = "retrieve"
    /\ call.options.csrfToken # NoToken
    /\ call.options.secretId \in ExternalIds
    /\ kv[HashSecretId(call.options.secretId)].present
    /\ call.firstOps = 0

\* C13: a retrieve answered 200 has recorded its view: after a last view the
\* record is gone from the store, after any other the stored viewCount is the
\* one the response carries (one request at a time, so no other write
\* intervenes)
StoreFailuresSurface ==
    \A p \in Procs :
        (/\ RetrieveDone(p)
         /\ resp[p].status = 200
         /\ loc[p].hashedSecretId \in StoreKeys)
        => IF resp[p].isLastView
           THEN ~kv[loc[p].hashedSecretId].present
           ELSE /\ kv[loc[p].hashedSecretId].present
                /\ kv[loc[p].hashedSecretId].value.viewCount
                     = resp[p].viewCount

\* the secret under trial was sealed in the given mode and an attempt of
\* the given kind has been made on it
Opened(mode, how) ==
    cipher.phase = "opened" /\ cipher.mode = mode /\ cipher.attempt.how = how

\* C14: decrypt(encrypt(P, K), K) returns P; the encrypted data is the 12
\* bytes of the iv followed by what AES-GCM made of the plaintext
EncryptionRoundTrip ==
    /\ (cipher.phase # "none" /\ cipher.mode = "key") =>
          LET combined == Base64ToArrayBuffer(cipher.sealed.encryptedData).value
          IN /\ SliceTo(combined, IV_LENGTH) = EncryptIv(1)
             /\ SliceFrom(combined, IV_LENGTH)
                  = AesGcmEncrypt(cipher.key, EncryptIv(1),
                                  LitBytes(TextEncode(cipher.plaintext)))
    /\ (Opened("key", "key") /\ cipher.attempt.key = cipher.key) =>
          cipher.result = Ok(cipher.plaintext)

PasswordDeterminism ==
    /\ \A pw \in Passwords :
         DeriveKeyFromPassword(pw, RandomValues("salt", 1, SALT_BYTES)).key
           # DeriveKeyFromPassword(pw, RandomValues("salt", 2, SALT_BYTES)).key
    /\ Opened("password", "password") =>
          IF cipher.attempt.password = cipher.password
          THEN cipher.result = Ok(cipher.plaintext)
          ELSE cipher.result = Thrown(DECRYPTION_FAILED)

\* C17: the key imported from the exported text has the raw bytes of the
\* key, and decryptSecret with the exported text gives what decrypt with the
\* key gives, which is no error
KeyExportRoundTrip ==
    /\ (cipher.phase # "none" /\ cipher.mode = "key") =>
          /\ ExportKeyToBase64(cipher.key).ok
          /\ cipher.sealed.key = ExportKeyToBase64(cipher.key).value
          /\ ImportKeyFromBase64(cipher.sealed.key).ok
          /\ ImportKeyFromBase64(cipher.sealed.key).value.raw = cipher.key.raw
    /\ Opened("key", "url") =>
          /\ cipher.result.ok
          /\ cipher.result = Decrypt(cipher.sealed.encryptedData, cipher.key)
KeyExportRoundTripWitness ==
    /\ Opened("key", "url")
    /\ cipher.key.raw[1] = Lit(251)
    /\ cipher.plaintext = <<97, 8364>>
    /\ cipher.result = Ok(cipher.plaintext)

\* the fields of a create request pass every check before the token check
FieldsValid(r) ==
    /\ r.json \notin {"invalid", "null"}
    /\ r.encryptedData # ""
    /\ r.csrfToken.n # 0
    /\ InRange(r.maxViews, MIN_VIEWS, MAX_VIEWS)
    /\ InRange(r.expirationHours, MIN_HOURS, MAX_HOURS)
\* what each finished create is answered with, status being the status of
\* the answer to a stored secret: the new external id, maxViews as sent and
\* the time of the answer plus the hours asked for; 500 when the store
\* write failed; 403 when only the token check failed
CreateAnswers(status) ==
    \A p \in Procs :
       /\ (pc[p] = "c_put" /\ pc'[p] = "done" /\ kv' # kv)
          => resp'[p] = Response("response", status, "", "", 0,
                                 req[p].maxViews, FALSE, 0, loc[p].secretId,
                                 now + req[p].expirationHours.n
                                         * SECONDS_PER_HOUR * MS_PER_SECOND)
       /\ (pc[p] = "c_put" /\ pc'[p] = "done" /\ kv' = kv)
          => resp'[p].status = 500
       /\ (/\ pc[p] = "idle" /\ pc'[p] = "done" /\ req'[p].route = "create"
           /\ FetchRejection(req'[p]) = NoResponse
           /\ FieldsValid(req'[p])
           /\ ~TokenCheck(req'[p], now))
          => resp'[p].status = 403

\* C18: a create that passes validation and the token check and whose store
\* write succeeds is answered with status 201 and a body holding the new
\* external id, maxViews as submitted and expiresAt = time + ttlHours *
\* 3 600 000 ms; a failed store write is answered with 500 and a failed
\* token check with 403
CreateResponseContract == [][CreateAnswers(201)]_vars

\* what retrieveSecret(id) hands to apiCall on the page of the deployment
RetrieveSecretOptions(id) == FromOrigin(RetrieveBody(id, NoToken), APP_ORIGIN)
\* the record of external id is in the store and has not expired
Stored(id) == KvLive(kv, HashSecretId(id), now)
\* apiCall has returned to retrieveSecret, which has not yet gone on
Returned(options) == call.phase = "returned" /\ call.options = options

\* C19: the view count is advanced and persisted before the client attempts
\* any decryption, so a retrieveSecret that reaches the server consumes one
\* view of the record it asks for whatever decryption does later, and an
\* attempt in the password prompt makes no server call
ViewConsumedBeforeDecrypt ==
    /\ [](\A id \in ExternalIds :
            /\ (/\ call.phase = "returned"
                /\ call.options.route = "retrieve"
                /\ call.options.secretId = id
                /\ ResponseOk(call.response))
               => (Stored(id) => kv[HashSecretId(id)].value.viewCount >= 1)
            /\ (Returned(RetrieveSecretOptions(id)) /\ Stored(id))
               => /\ ResponseOk(call.response)
                  /\ kv[HashSecretId(id)].value.viewCount >= 1)
    /\ [][(\E opens \in BOOLEAN : DecryptWithPasswordPrompt(opens))
            => UNCHANGED <<kv, kvOps, pc, req, resp, call, delivered>>]_vars

\* C20: every key of the store is hashSecretId(id) of an external id that a
\* create returned, no store key is an external id and no stored record
\* has a field for one, and retrieve(id) looks up under hashSecretId(id)
\* only: whoever presents anything but the external id finds no record
IdentifierSeparation ==
    /\ \A k \in DOMAIN kv :
          kv[k].present =>
             /\ k \notin ExternalIds
             /\ Created(k.r)
             /\ k = HashSecretId(GenerateSecretId(k.r))
             /\ DOMAIN kv[k].value =
                  {"encryptedData", "maxViews", "viewCount", "createdAt"}
    /\ \A p \in Procs :
          /\ pc[p] \in {"r_get", "r_del410", "r_delete", "r_put"}
             => loc[p].hashedSecretId = HashSecretId(req[p].secretId)
          /\ (RetrieveDone(p) /\ resp[p].status = 200)
             => /\ req[p].secretId \in ExternalIds
                /\ Created(req[p].secretId.r)
          /\ (CreateDone(p) /\ resp[p].status = 200)
             => /\ resp[p].secretId \in ExternalIds
                /\ Created(resp[p].secretId.r)
\* a record is stored, and a retrieve that presented its store key in place
\* of the external id has read the store and found nothing
IdentifierSeparationWitness ==
    \E p \in Procs, k \in StoreKeys :
        /\ kv[k].present
        /\ RetrieveDone(p)
        /\ req[p].secretId = k
        /\ ReachedStore(p)
        /\ resp[p].status = 404

\* the request in slot p has every field its handler asks for before the
\* token check
ReachesTokenCheck(p) ==
    /\ pc[p] # "idle"
    /\ FetchRejection(req[p]) = NoResponse
    /\ IF req[p].route = "create" THEN FieldsValid(req[p])
       ELSE /\ req[p].json = "object"
            /\ req[p].secretId # NoId
            /\ req[p].csrfToken.n # 0
RejectedForToken(p) ==
    pc[p] = "done" /\ resp[p].status = 403 /\ kvOps[p] = 0

\* C21: whether a request passes the token check depends on the token text,
\* the server secret and the time of the check only, whatever was stored,
\* delivered or validated before, so a token that was accepted is accepted
\* again while it is in the window; and the check changes nothing in the
\* store
TokenStateless ==
    /\ [](\A p \in Procs :
            ReachesTokenCheck(p) =>
               (RejectedForToken(p) <=>
                  ~ValidateCSRFToken(req[p].csrfToken, CSRF_SECRET,
                                     loc[p].checkedAt)))
    /\ [][\A p \in Procs :
            (pc[p] = "idle" /\ pc'[p] # "idle")
               => kv' = kv /\ delivered' = delivered /\ born' = born]_vars
\* the one token issued at time 0 has passed the check of a create and then
\* that of a retrieve, which delivered the envelope
TokenStatelessWitness ==
    \E p \in Procs, k \in StoreKeys :
        /\ now = 0
        /\ kv[k].present
        /\ RetrieveDone(p)
        /\ resp[p].status = 200
        /\ req[p].csrfToken = HandleGetCSRFToken(0)
        /\ loc[p].hashedSecretId = k

\* the store holds nothing under key: never written, deleted, or written
\* with a time-to-live that has run out
NotInStore(key) ==
    \/ key \notin DOMAIN kv
    \/ ~kv[key].present
    \/ (kv[key].expiration # NoExpiration /\ now >= kv[key].expiration)

\* C22: a retrieve whose store read finds nothing under the hash of its id
\* (never created, expired in the store, or deleted by the final view)
\* answers 404 and has done nothing to the store but that one read
NotFoundReadOnly ==
    /\ [][\A p \in Procs :
            (/\ pc[p] = "r_get" /\ pc'[p] # "r_get"
             /\ NotInStore(loc[p].hashedSecretId))
            => /\ pc'[p] = "done"
               /\ resp'[p].status = 404
               /\ kv' = kv
               /\ kvOps'[p] = 1]_vars
    /\ [](\A p \in Procs :
            (RetrieveDone(p) /\ resp[p].status = 404) => kvOps[p] = 1)
\* a record with a time-to-live that has run out is still in the store's
\* books, and a retrieve of its id has answered 404
NotFoundReadOnlyWitness ==
    \E p \in Procs, k \in StoreKeys :
        /\ kv[k].present
        /\ now >= kv[k].expiration
        /\ kv[k].expiration # NoExpiration
        /\ RetrieveDone(p)
        /\ loc[p].hashedSecretId = k
        /\ resp[p].status = 404

\* every stored record has a count below its limit
CountsBelowLimit ==
    \A k \in DOMAIN kv :
        kv[k].present =>
           /\ 0 <= kv[k].value.viewCount
           /\ JsLt(Num(kv[k].value.viewCount), ToNumber(kv[k].value.maxViews))
\* no retrieve stands at or has answered from the branch of line 244
DefensiveBranchNotTaken ==
    \A p \in Procs : pc[p] # "r_del410" /\ resp[p].status # 410

\* C23: under any sequence or interleaving of create and retrieve calls
\* each stored record satisfies 0 <= viewCount < maxViews, so the branch of
\* retrieve that finds viewCount >= maxViews and answers 410 is never taken
StoredCountBelowLimit == CountsBelowLimit /\ DefensiveBranchNotTaken

\* C24: once a retrieve has deleted a record on its final view (its response
\* has isLastView = true), the store holds no record under that key, also
\* when other retrieves of the id were between their store read and their
\* write-back at the time of the deletion
DeletionPermanent ==
    \A p \in Procs :
        (RetrieveDone(p) /\ resp[p].status = 200 /\ resp[p].isLastView)
        => ~kv[loc[p].hashedSecretId].present

\* the record the create of draw r wrote
Submitted(r) == born[r].secretData

PerRecordIsolation ==
    [][\A k \in DOMAIN kv :
         kv'[k] # kv[k] =>
            \E p \in Procs :
               /\ pc[p] \in {"c_put", "r_del410", "r_delete", "r_put"}
               /\ pc'[p] = "done"
               /\ IF req[p].route = "retrieve"
                  THEN k = HashSecretId(req[p].secretId)
                  ELSE /\ k = HashSecretId(resp'[p].secretId)
                       /\ ~kv[k].present]_vars
\* beside the earlier record, untouched, a record has been created and
\* deleted by its final view
PerRecordIsolationWitness ==
    \E r \in 1..MaxSecrets :
        /\ kv[HashSecretId(BystanderId)] = BystanderEntry
        /\ Created(r)
        /\ delivered[r] = Limit(r)
        /\ ~kv[HashSecretId(GenerateSecretId(r))].present

HandedDelay ==
    (trial.receivedAt - ParseInt(trial.token.ts).v)
       + (trial.at - trial.returnedAt)

\* C28: getCSRFToken returns the cached token only before csrfTokenExpiry,
\* 25 minutes after the token was received, and fetches otherwise; when the
\* delay from issue to receipt plus that of the request is under 5 minutes
\* the token it returned validates at the worker
CachedTokenValid ==
    /\ trial.phase \in {"returned", "validated"} =>
          /\ trial.returnedAt < trial.receivedAt + CSRF_TOKEN_CACHE_DURATION
          /\ trial.token = cachedCSRFToken
          /\ csrfTokenExpiry = trial.receivedAt + CSRF_TOKEN_CACHE_DURATION
    /\ (trial.phase = "validated" /\ HandedDelay < 5 * MINUTE_MS)
          => trial.result
\* a token returned from the cache one millisecond before its expiry, having
\* taken 2 minutes to arrive, validates 3 minutes less 1 ms later
CachedTokenValidWitness ==
    /\ trial.phase = "validated"
    /\ trial.returnedAt = trial.receivedAt + CSRF_TOKEN_CACHE_DURATION - 1
    /\ HandedDelay = 5 * MINUTE_MS - 1
    /\ trial.result

\* the three conditions on a token text: two non-empty parts, a signature
\* part that is the HMAC of the timestamp part under the worker's secret,
\* and a time of issue that lies at most 30 minutes before t
WellFormed(token) ==
    token.n = 2 /\ token.ts # <<>> /\ token.sig # EmptyString
SignatureMatches(token) == token.sig = HmacHex(CSRF_SECRET, token.ts)
InWindow(token, t) ==
    LET issued == ParseInt(token.ts)
    IN /\ ~issued.nan
       /\ 0 <= t - issued.v
       /\ t - issued.v <= CSRF_WINDOW_MS

\* C29: validateCSRFToken returns false for every token that is not two
\* non-empty parts around one dot, for every token whose signature part is
\* not the HMAC of its timestamp part under the server secret, and for every
\* token outside the window; it returns true only when all three pass
InvalidTokenForms ==
    trial.phase = "validated" =>
        (trial.result <=>
            /\ WellFormed(trial.token)
            /\ SignatureMatches(trial.token)
            /\ InWindow(trial.token, trial.at))

\* the error of the first check of a create request that fails, the checks
\* taken in the order JSON parse, required fields, maxViews within 1..100,
\* expirationHours within 1..8760, token; NoResponse when none fails
FirstFailingCheck(r, t) ==
    IF r.json = "invalid" THEN ErrorResponse(400, "Invalid JSON")
    ELSE IF \/ r.encryptedData = ""
            \/ r.csrfToken.n = 0
            \/ r.maxViews.k = "undefined"
            \/ r.expirationHours.k = "undefined"
         THEN ErrorResponse(400, "Missing required fields")
    ELSE IF ~InRange(r.maxViews, MIN_VIEWS, MAX_VIEWS)
         THEN ErrorResponse(400, "Max views must be between 1 and 100")
    ELSE IF ~InRange(r.expirationHours, MIN_HOURS, MAX_HOURS)
         THEN ErrorResponse(400, "Expiration hours must be between 1 and 8760")
    ELSE IF ~ValidateCSRFToken(r.csrfToken, CSRF_SECRET, t)
         THEN ErrorResponse(403, "Invalid CSRF token")
    ELSE NoResponse

\* C30: a create request is answered with the error of the first failing
\* check in the order JSON parse, required fields, maxViews range,
\* expirationHours range, token; a request with a bound out of range and an
\* invalid token is answered 400, and 403 is the answer only to requests
\* whose fields are all present and in range
CreateCheckOrder ==
    \A p \in Procs :
        (/\ pc[p] # "idle"
         /\ req[p].route = "create"
         /\ req[p].json # "null")
        => /\ FirstFailingCheck(req[p], loc[p].checkedAt) # NoResponse
              => (pc[p] = "done" /\
                  resp[p] = FirstFailingCheck(req[p], loc[p].checkedAt))
           /\ (pc[p] = "done" /\ resp[p].status = 403)
              => FieldsValid(req[p])

\* the link of the trial is a key-mode link of an exported key
KeyModeLink ==
    /\ trial.encryptionKey \in LinkKeys
    /\ ~trial.isPasswordBased

\* C31: every key text that exportKeyToBase64 can produce is accepted by
\* isValidEncryptionKey, so retrieveSecret never refuses a key-mode link of
\* generateSecretUrl as invalid or corrupted before its call of the API
ExportedKeysPassValidation ==
    (trial.phase = "validated" /\ KeyModeLink) =>
        /\ IsValidEncryptionKey(trial.encryptionKey)
        /\ trial.error = ""

\* C32: opening the link generateSecretUrl(id, key, false) of an exported
\* key hands (id, key) to retrieveSecret, which takes it as key-based;
\* opening generateSecretUrl(id, key, true) or generateSecretUrl(id, null,
\* false) hands it id and no key, which it takes as password-based, and
\* such a link holds no character of the key
LinkRoundTrip ==
    /\ trial.phase \in {"navigated", "validated"} =>
          /\ trial.parsed.view = "retrieve-view"
          /\ trial.parsed.secretId = trial.secretId
          /\ IF KeyModeLink
             THEN trial.parsed.encryptionKey = trial.encryptionKey
             ELSE /\ ~Truthy(trial.parsed.encryptionKey)
                  /\ \A j \in 1..Len(trial.url) : trial.url[j].item # "char"
    /\ trial.phase = "validated" =>
          /\ trial.modeInfo.secretId = trial.secretId
          /\ IF KeyModeLink
             THEN /\ trial.modeInfo.mode = "key-based"
                  /\ trial.modeInfo.encryptionKey = trial.encryptionKey
             ELSE trial.modeInfo.mode = "password-based"
LinkRoundTripWitness ==
    /\ trial.phase = "validated"
    /\ KeyModeLink
    /\ \E j \in 1..Len(trial.encryptionKey.chars) :
          trial.encryptionKey.chars[j].ch.urlSafe
    /\ trial.parsed.secretId = SecretIdText(BystanderId)
    /\ trial.parsed.encryptionKey = trial.encryptionKey
    /\ trial.modeInfo.mode = "key-based"

\* C33: fetch resolves to a response for every request to an /api/ route,
\* a body that is JSON but no object included; an exception raised while a
\* handler runs is answered 500 'Internal server error' and never leaves
\* fetch as a rejected promise
WorkerAlwaysAnswers ==
    \A p \in Procs :
        pc[p] = "done" =>
            /\ resp[p].kind = "response"
            /\ req[p].json = "null" =>
                  resp[p] = ErrorResponse(500, "Internal server error")

\* the characters of the classes that the options enable
Members(chars) == {chars[i] : i \in 1..Len(chars)}
EnabledClasses(options) ==
    (IF options.includeUppercase THEN Members(UPPERCASE) ELSE {})
    \cup (IF options.includeLowercase THEN Members(LOWERCASE) ELSE {})
    \cup (IF options.includeNumbers THEN Members(NUMBERS) ELSE {})
    \cup (IF options.includeSymbols THEN Members(SYMBOLS) ELSE {})
SimilarCharacters == {"0", "O", "1", "l", "I"}

\* C34: generatePassword fails with an error when all four classes are
\* disabled; otherwise it returns a string of exactly length characters,
\* each of an enabled class, and with excludeSimilar none of them is one of
\* 0, O, 1, l, I
PasswordGeneration ==
    trial.phase = "validated" =>
        LET enabled == EnabledClasses(trial.options)
        IN IF enabled = {}
           THEN /\ ~trial.result.ok
                /\ trial.result.error = "At least one character type must be included"
           ELSE /\ trial.result.ok
                /\ Len(trial.result.value) = trial.length
                /\ \A i \in 1..trial.length :
                      /\ trial.result.value[i] \in enabled
                      /\ trial.options.excludeSimilar =>
                            trial.result.value[i] \notin SimilarCharacters
PasswordGenerationWitness ==
    /\ trial.phase = "validated"
    /\ trial.length = MaxPasswordLen
    /\ trial.options = PasswordOptions(TRUE, TRUE, TRUE, TRUE, TRUE)
    /\ trial.result.ok
    /\ trial.result.value[1] = "?"
    /\ trial.randomBytes[1] = 80

\* is the character one of '+', '/' and '=': the padding, or a sextet of 62
\* or 63 that is not written in the URL-safe way
PlusSlashOrPad(c) == c.pad \/ (MayBeSpecial(c.six) /\ ~c.urlSafe)

\* C35: for every byte sequence b, of every length modulo 3,
\* base64ToArrayBuffer(arrayBufferToBase64(b)) = b, the encoded text holds
\* none of '+', '/' and '=', and the worker's base64urlEncode gives the same
\* text as the client's arrayBufferToBase64
Base64urlRoundTrip ==
    trial.phase = "validated" =>
        /\ trial.decoded = Ok(trial.bytes)
        /\ \A j \in 1..Len(trial.text) : ~PlusSlashOrPad(trial.text[j])
        /\ trial.workerText = trial.text
Base64urlRoundTripWitness ==
    /\ trial.phase = "validated"
    /\ Len(trial.bytes) = MaxBufferLen
    /\ trial.bytes[1] = Lit(251)
    /\ trial.bytes[MaxBufferLen] = Lit(255)
    /\ \E j \in 1..Len(trial.text) : trial.text[j].urlSafe
    /\ Len(Btoa(trial.bytes)) > Len(trial.text)
    /\ trial.decoded = Ok(trial.bytes)

============================================================================
